---- MODULE Spec2Model ----
(***************************************************************************)
(* The interactive exploration engine of linewise (src/src/interactive.rs) *)
(* as a state machine: InteractiveState's fields, the preset files it      *)
(* reads and writes, and the host loop of run_interactive.                 *)
(*                                                                         *)
(* Text (count_buffer, command_buffer, preset names, file lines) is a      *)
(* sequence of one-character strings.  Option<T> / Result<T, E> values are *)
(* <<>> for None / Err and <<v>> for Some(v) / Ok(v).                       *)
(***************************************************************************)
EXTENDS Integers, Sequences, FiniteSets, TLC

(***************************************************************************)
(* Bounds of the model.                                                    *)
(***************************************************************************)
\* longest count_buffer a digit key is still let to extend
MaxCountLen == 2
\* most locked fields the L key is still let to add to
MaxLocked == 2

(***************************************************************************)
(* usize.  The machine word is scaled to UsizeBits bits so that the        *)
(* largest count the count buffer parses to (usize::MAX) stays within      *)
(* reach of the model checker; every +, * and - the source does on usize   *)
(* goes through the operators below.  A build with overflow checks         *)
(* (the debug profile) panics where the arithmetic overflows, a build      *)
(* without them (the release profile) wraps modulo 2^UsizeBits.            *)
(***************************************************************************)
UsizeBits == 5
UsizeModulus == 2 ^ UsizeBits
UsizeMax == UsizeModulus - 1

wrapping_add(a, b) == (a + b) % UsizeModulus
wrapping_mul(a, b) == (a * b) % UsizeModulus
wrapping_sub(a, b) == (a - b + UsizeModulus) % UsizeModulus
add_overflows(a, b) == a + b > UsizeMax
mul_overflows(a, b) == a * b > UsizeMax
sub_overflows(a, b) == a < b
saturating_sub(a, b) == IF a >= b THEN a - b ELSE 0
Min(a, b) == IF a <= b THEN a ELSE b
Max(a, b) == IF a >= b THEN a ELSE b

None == << >>
Some(v) == << v >>
unwrap_or(opt, d) == IF opt = None THEN d ELSE opt[1]
is_some(opt) == opt # None

(***************************************************************************)
(* DataType                                                                *)
(***************************************************************************)
DataType_all ==
    << "U8", "U16Le", "U16Be", "U32Le", "U32Be", "VarInt", "Hex", "Binary", "Ascii" >>

DataType == { DataType_all[i] : i \in DOMAIN DataType_all }

\* DataType::name, as text
name(t) ==
    CASE t = "U8" -> << "u", "8" >>
      [] t = "U16Le" -> << "u", "1", "6", "l", "e" >>
      [] t = "U16Be" -> << "u", "1", "6", "b", "e" >>
      [] t = "U32Le" -> << "u", "3", "2", "l", "e" >>
      [] t = "U32Be" -> << "u", "3", "2", "b", "e" >>
      [] t = "VarInt" -> << "v", "a", "r", "i", "n", "t" >>
      [] t = "Hex" -> << "h", "e", "x" >>
      [] t = "Binary" -> << "b", "i", "n", "a", "r", "y" >>
      [] t = "Ascii" -> << "a", "s", "c", "i", "i" >>

\* DataType::from_name
from_name(s) ==
    CASE s = << "u", "8" >> -> Some("U8")
      [] s = << "u", "1", "6", "l", "e" >> -> Some("U16Le")
      [] s = << "u", "1", "6", "b", "e" >> -> Some("U16Be")
      [] s = << "u", "3", "2", "l", "e" >> -> Some("U32Le")
      [] s = << "u", "3", "2", "b", "e" >> -> Some("U32Be")
      [] s = << "v", "a", "r", "i", "n", "t" >> -> Some("VarInt")
      [] s = << "h", "e", "x" >> -> Some("Hex")
      [] s = << "b", "i", "n", "a", "r", "y" >> -> Some("Binary")
      [] s = << "a", "s", "c", "i", "i" >> -> Some("Ascii")
      [] OTHER -> None

\* DataType::byte_size
byte_size(t) ==
    CASE t \in { "U8", "Hex", "Binary", "Ascii" } -> Some(1)
      [] t \in { "U16Le", "U16Be" } -> Some(2)
      [] t \in { "U32Le", "U32Be" } -> Some(4)
      [] t = "VarInt" -> None

position(t) == CHOOSE i \in DOMAIN DataType_all : DataType_all[i] = t

\* DataType::next: all[(idx + 1) % all.len()], indices from 0
next(t) == DataType_all[((position(t) - 1 + 1) % Len(DataType_all)) + 1]

\* prev without the wrap at the first type: it stays there
prev_saturating(t) ==
    IF position(t) = 1 THEN DataType_all[1] ELSE DataType_all[position(t) - 1]

\* DataType::prev: all[(idx + all.len() - 1) % all.len()]
prev(t) == DataType_all[((position(t) - 1 + Len(DataType_all) - 1) % Len(DataType_all)) + 1]

(***************************************************************************)
(* Decimal text <-> usize                                                  *)
(***************************************************************************)
DigitChars == << "0", "1", "2", "3", "4", "5", "6", "7", "8", "9" >>
IsDigit(c) == \E i \in DOMAIN DigitChars : DigitChars[i] = c
DigitValue(c) == (CHOOSE i \in DOMAIN DigitChars : DigitChars[i] = c) - 1

RECURSIVE parse_digits(_, _)
parse_digits(s, acc) ==
    IF s = << >> THEN Some(acc)
    ELSE IF ~IsDigit(Head(s)) THEN None
    ELSE LET v == acc * 10 + DigitValue(Head(s))
         IN  IF v > UsizeMax THEN None ELSE parse_digits(Tail(s), v)

\* str::parse::<usize>: an optional '+', then at least one digit, nothing
\* else, and a value that fits the word
parse_usize(s) ==
    LET body == IF s # << >> /\ Head(s) = "+" THEN Tail(s) ELSE s
    IN  IF body = << >> THEN None ELSE parse_digits(body, 0)

\* format!("{}", n) of a usize
RECURSIVE format_usize(_)
format_usize(n) ==
    IF n < 10 THEN << DigitChars[n + 1] >>
    ELSE Append(format_usize(n \div 10), DigitChars[(n % 10) + 1])

(***************************************************************************)
(* DataType::decode_varint.  The u64 accumulator is scaled to VarintBits   *)
(* bits, one more than a whole number of 7-bit groups as 64 is, so that    *)
(* the last group that is read keeps only its lowest bit.                  *)
(***************************************************************************)
VarintBits == 15

\* the loop returning what it has accumulated when the bytes run out
RECURSIVE decode_varint_partial(_, _, _)
decode_varint_partial(data, value, shift) ==
    IF data = << >> THEN format_usize(value)
    ELSE IF shift >= VarintBits THEN << >>
    ELSE LET byte == Head(data)
             group == ((byte % 128) * (2 ^ shift)) % (2 ^ VarintBits)
         IN  IF byte < 128 THEN format_usize(value + group)
             ELSE decode_varint_partial(Tail(data), value + group, shift + 7)

\* the loop of decode_varint from one byte on; the groups do not share bits,
\* so `|=` adds
RECURSIVE decode_varint_from(_, _, _)
decode_varint_from(data, value, shift) ==
    IF data = << >> THEN << >>
    ELSE IF shift >= VarintBits THEN << >>
    ELSE LET byte == Head(data)
             group == ((byte % 128) * (2 ^ shift)) % (2 ^ VarintBits)
         IN  IF byte < 128 THEN format_usize(value + group)
             ELSE decode_varint_from(Tail(data), value + group, shift + 7)

decode_varint(data) == decode_varint_from(data, 0, 0)

\* decode_value(record, byte_off, DataType::VarInt)
decode_value_varint(record, byte_off) ==
    IF byte_off <= Len(record)
    THEN decode_varint(SubSeq(record, byte_off + 1, Len(record)))
    ELSE << >>

(***************************************************************************)
(* State                                                                   *)
(***************************************************************************)
VARIABLES
    \* InteractiveState
    records, current_record, field_offset, current_field, current_type,
    locked_fields, scroll_offset, visible_records, message,
    command_mode, command_buffer, current_preset, count_buffer,
    frequency_mode, byte_frequencies,
    pending_g, pending_y, pending_yo, pending_open_bracket, pending_close_bracket,
    wrap_mode, horizontal_scroll, terminal_width, show_locks, show_gutter,
    \* the files under the three preset directories: path -> lines
    fs,
    \* ~/.config/linewise/settings.json: None, or Some of what save_config wrote
    settings_file,
    \* whether the build checks integer overflow (panics) or wraps
    overflow_checks,
    \* where run_interactive is: "start", "draw", "read", "exited" (the loop
    \* was left by break), "panicked", "failed" (a `?` of the loop returned the
    \* error), "returned" (the lines after the loop ran to the return)
    pc

cursor_vars == << current_record, field_offset, current_field, current_type >>
view_vars == << scroll_offset, visible_records, horizontal_scroll, terminal_width >>
pending_vars ==
    << pending_g, pending_y, pending_yo, pending_open_bracket, pending_close_bracket >>
mode_vars == << frequency_mode, wrap_mode, show_locks, show_gutter >>
cmd_vars == << command_mode, command_buffer >>
env_vars == << fs, settings_file, overflow_checks >>

state_vars ==
    << records, cursor_vars, locked_fields, view_vars, message, cmd_vars,
       current_preset, count_buffer, byte_frequencies, pending_vars, mode_vars >>

vars == << state_vars, env_vars, pc >>

(***************************************************************************)
(* Locked fields: the overlap test, lock and unlock                        *)
(***************************************************************************)
LockedField(off, len, t) == [byte_offset |-> off, byte_length |-> len, data_type |-> t]

\* the fields left in the order they were pushed
keep_order(fields) == fields

\* slice::sort_by_key(|f| f.byte_offset): a stable sort, here by insertion
RECURSIVE insert_by_offset(_, _)
insert_by_offset(sorted, f) ==
    IF sorted = << >> THEN << f >>
    ELSE IF Head(sorted).byte_offset <= f.byte_offset
         THEN << Head(sorted) >> \o insert_by_offset(Tail(sorted), f)
         ELSE << f >> \o sorted

RECURSIVE sort_by_offset(_)
sort_by_offset(fields) ==
    IF fields = << >> THEN << >>
    ELSE insert_by_offset(sort_by_offset(SubSeq(fields, 1, Len(fields) - 1)),
                          fields[Len(fields)])

\* the overlap test that finds no overlap at all
lock_overlap_test_never(f, byte_off, byte_len) ==
    FALSE

\* the overlap test with the bounds compared strictly: touching counts as overlap
lock_overlap_test_closed(f, byte_off, byte_len) ==
    LET f_end == wrapping_add(f.byte_offset, f.byte_length)
        new_end == wrapping_add(byte_off, byte_len)
    IN  ~(new_end < f.byte_offset \/ byte_off > f_end)

\* the closure of lock_current's `any`, in the build's wrapping arithmetic
lock_overlap_test(f, byte_off, byte_len) ==
    LET f_end == wrapping_add(f.byte_offset, f.byte_length)
        new_end == wrapping_add(byte_off, byte_len)
    IN  ~(new_end <= f.byte_offset \/ byte_off >= f_end)

\* the fields `any` visits: up to and including the first one that overlaps
lock_visited(fields, byte_off, byte_len) ==
    { i \in DOMAIN fields :
        \A j \in 1 .. (i - 1) : ~lock_overlap_test(fields[j], byte_off, byte_len) }

\* lock_current: does an overflow check of the build fire on the way?
lock_panics(fields, byte_off, type_size, count, record_len) ==
    \/ mul_overflows(type_size, count)
    \/ /\ ~mul_overflows(type_size, count)
       /\ LET byte_len == type_size * count
          IN  \/ add_overflows(byte_off, byte_len)
              \/ \E i \in lock_visited(fields, byte_off, byte_len) :
                    add_overflows(fields[i].byte_offset, fields[i].byte_length)

\* lock_current on a registry: what the registry and the message become.
\* outcome is "overlap", "short" or "locked".
lock_result(fields, byte_off, t, count, record_len) ==
    LET type_size == unwrap_or(byte_size(t), 1)
        byte_len == wrapping_mul(type_size, count)
        overlaps == \E i \in DOMAIN fields : lock_overlap_test(fields[i], byte_off, byte_len)
    IN  IF overlaps
        THEN [outcome |-> "overlap", fields |-> fields,
              message |-> << "Cannot lock: overlaps with existing field" >>]
        ELSE IF wrapping_add(byte_off, byte_len) > record_len
        THEN [outcome |-> "short", fields |-> fields,
              message |-> << "Cannot lock: bytes needed, only available",
                             byte_len, saturating_sub(record_len, byte_off) >>]
        ELSE [outcome |-> "locked",
              fields |-> sort_by_offset(Append(fields, LockedField(byte_off, byte_len, t))),
              message |-> IF count > 1
                          THEN << "Locked NxT (bytes) at byte", count, name(t), byte_len, byte_off >>
                          ELSE << "Locked T at byte", name(t), byte_off >>]

\* unlock_at_cursor's retain closure
unlock_covers(f, byte_off) ==
    LET f_end == wrapping_add(f.byte_offset, f.byte_length)
    IN  byte_off >= f.byte_offset /\ byte_off < f_end

unlock_panics(fields, byte_off) ==
    \E i \in DOMAIN fields : add_overflows(fields[i].byte_offset, fields[i].byte_length)

\* unlock_at_cursor on a registry: the fields retained
unlock_result(fields, byte_off) ==
    SelectSeq(fields, LAMBDA f : ~unlock_covers(f, byte_off))

(***************************************************************************)
(* Text                                                                    *)
(***************************************************************************)
IsWhitespace(c) == c \in { " ", "\t" }

\* str::split_whitespace
RECURSIVE split_whitespace_from(_, _, _)
split_whitespace_from(s, cur, acc) ==
    IF s = << >> THEN (IF cur = << >> THEN acc ELSE Append(acc, cur))
    ELSE IF IsWhitespace(Head(s))
         THEN split_whitespace_from(Tail(s), << >>, IF cur = << >> THEN acc ELSE Append(acc, cur))
         ELSE split_whitespace_from(Tail(s), Append(cur, Head(s)), acc)

split_whitespace(s) == split_whitespace_from(s, << >>, << >>)

\* str::trim
RECURSIVE trim_start(_)
trim_start(s) == IF s # << >> /\ IsWhitespace(Head(s)) THEN trim_start(Tail(s)) ELSE s

RECURSIVE trim_end(_)
trim_end(s) ==
    IF s # << >> /\ IsWhitespace(s[Len(s)]) THEN trim_end(SubSeq(s, 1, Len(s) - 1)) ELSE s

trim(s) == trim_end(trim_start(s))

\* str::splitn(2, ' '): cut at the first space, if there is one
splitn2(s) ==
    IF \E i \in DOMAIN s : s[i] = " "
    THEN LET i == CHOOSE k \in DOMAIN s : s[k] = " " /\ \A j \in 1 .. (k - 1) : s[j] # " "
         IN  << SubSeq(s, 1, i - 1), SubSeq(s, i + 1, Len(s)) >>
    ELSE << s >>

\* "{} {} {}"
join3(a, b, c) == a \o << " " >> \o b \o << " " >> \o c

(***************************************************************************)
(* Preset files                                                            *)
(***************************************************************************)
\* the lines save_preset writes around the fields
PresetHeaderLine == << "#", " ", "L", "o", "c", "k", "e", "d", " ", "f", "i", "e", "l", "d", "s", ":", " ", "o", "f", "f", "s", "e", "t", " ", "l", "e", "n", "g", "t", "h", " ", "t", "y", "p", "e" >>
PresetRulesLines ==
    << << >>,
       << "#", " ", "D", "e", "t", "e", "c", "t", "i", "o", "n", " ", "r", "u", "l", "e", "s", " ", "(", "u", "n", "c", "o", "m", "m", "e", "n", "t", " ", "a", "n", "d", " ", "e", "d", "i", "t", " ", "t", "o", " ", "e", "n", "a", "b", "l", "e", " ", "a", "u", "t", "o", "-", "d", "e", "t", "e", "c", "t", "i", "o", "n", ")" >>,
       << "#", " ", "@", "r", "u", "l", "e", "s" >>,
       << "#", " ", "b", "y", "t", "e", "_", "e", "q", "u", "a", "l", "s", " ", "0", " ", "3", "3" >>,
       << "#", " ", "m", "i", "n", "_", "l", "e", "n", "g", "t", "h", " ", "3", "0" >> >>

\* save_preset: the content written, as lines
save_preset_content(fields) ==
    << PresetHeaderLine >>
    \o [i \in DOMAIN fields |->
            join3(format_usize(fields[i].byte_offset),
                  format_usize(fields[i].byte_length),
                  name(fields[i].data_type))]
    \o PresetRulesLines

\* load_preset, one line: "skip", an error message, or the field
load_preset_line(line) ==
    LET parts == split_whitespace(line)
    IN  IF Len(parts) >= 3
        THEN LET byte_offset == parse_usize(parts[1])
                 byte_length == parse_usize(parts[2])
                 data_type == from_name(parts[3])
             IN  IF byte_offset = None THEN [kind |-> "err", err |-> "Invalid offset"]
                 ELSE IF byte_length = None THEN [kind |-> "err", err |-> "Invalid length"]
                 ELSE IF data_type = None THEN [kind |-> "err", err |-> "Invalid type"]
                 ELSE [kind |-> "field",
                       field |-> LockedField(byte_offset[1], byte_length[1], data_type[1])]
        ELSE [kind |-> "skip"]

\* load_preset, the loop over content.lines(): the first error ends it
RECURSIVE load_preset_lines(_, _)
load_preset_lines(lines, new_fields) ==
    IF lines = << >> THEN [ok |-> TRUE, fields |-> new_fields]
    ELSE LET r == load_preset_line(Head(lines))
         IN  CASE r.kind = "err" -> [ok |-> FALSE, err |-> << r.err >>]
               [] r.kind = "field" -> load_preset_lines(Tail(lines), Append(new_fields, r.field))
               [] r.kind = "skip" -> load_preset_lines(Tail(lines), new_fields)

\* Paths: << directory, name >>.  "config" is ~/.config/linewise/presets,
\* "local" is ~/.local/etc/linewise/presets, "cwd" the working directory
\* (each with the name plus ".lwpreset"); "verbatim" is the name taken as a path.
PresetDirs == { "config", "local", "cwd" }

exists(files, path) == path \in DOMAIN files

\* resolve_preset_path(name, None)
resolve_preset_path(files, nm) ==
    IF nm # << >> /\ Head(nm) = "/" THEN << "verbatim", nm >>
    ELSE IF \E i \in DOMAIN nm : nm[i] \in { "/", "\\" } THEN << "verbatim", nm >>
    ELSE IF exists(files, << "config", nm >>) THEN << "config", nm >>
    ELSE IF exists(files, << "local", nm >>) THEN << "local", nm >>
    ELSE IF exists(files, << "cwd", nm >>) THEN << "cwd", nm >>
    ELSE << "config", nm >>

\* fs::write
write_file(files, path, content) ==
    [p \in DOMAIN files \cup { path } |-> IF p = path THEN content ELSE files[p]]

\* load_preset up to the assignment: Ok(new_fields) or Err(message).
\* read_ok is whether the read of an existing file succeeds.
load_preset_result(files, nm, read_ok) ==
    LET path == resolve_preset_path(files, nm)
    IN  IF ~exists(files, path) \/ ~read_ok
        THEN [ok |-> FALSE, err |-> << "Failed to read", path >>]
        ELSE load_preset_lines(files[path], << >>)

(***************************************************************************)
(* Command verbs                                                           *)
(***************************************************************************)
V_w == << "w" >>
V_write == << "w", "r", "i", "t", "e" >>
V_w_bang == << "w", "!" >>
V_write_bang == << "w", "r", "i", "t", "e", "!" >>
V_p == << "p" >>
V_preset == << "p", "r", "e", "s", "e", "t" >>
V_e == << "e" >>
V_o == << "o" >>
V_open == << "o", "p", "e", "n" >>
V_edit == << "e", "d", "i", "t" >>
V_clear == << "c", "l", "e", "a", "r" >>
V_s == << "s" >>
V_save == << "s", "a", "v", "e" >>
V_q == << "q" >>
V_quit == << "q", "u", "i", "t" >>

(***************************************************************************)
(* The files of the model's world                                          *)
(***************************************************************************)
\* three 4-byte records, the first one 0x21 0x00 0x05 0xFF
ScenarioRecords == << << 33, 0, 5, 255 >>, << 33, 1, 6, 254 >>, << 33, 0, 7, 128 >> >>
\* records of different lengths
MixedRecords == << << 1, 2 >>, << 3, 4, 5, 6, 7, 8 >> >>
\* a one-byte and a two-byte record
TinyRecords == << << 7 >>, << 8, 9 >> >>
\* a single one-byte record
OneByteRecords == << << 7 >> >>
\* six one-byte records
MoveRecords == << << 1 >>, << 2 >>, << 3 >>, << 4 >>, << 5 >>, << 6 >> >>
\* ten 3-byte records: at position 0 the value 1 is in 9 of 10, at position 1
\* the most frequent value, 1, is in 3 of 10, at position 2 all hold 7
TenRecords ==
    << << 1, 1, 7 >>, << 1, 1, 7 >>, << 1, 1, 7 >>, << 1, 2, 7 >>, << 1, 2, 7 >>,
       << 1, 3, 7 >>, << 1, 3, 7 >>, << 1, 4, 7 >>, << 1, 5, 7 >>, << 2, 6, 7 >> >>
\* bytes for varints: the ends of a group, 0xAC 0x02 (300), continuation bytes
VarintBytes == { 1, 2, 128, 172, 255 }
\* every record of up to four of these bytes, alone in its record set
VarintRecordSets ==
    { << r >> : r \in UNION { [1 .. n -> VarintBytes] : n \in 0 .. 4 } }
RecordSets ==
    { ScenarioRecords, MixedRecords, TinyRecords, OneByteRecords, MoveRecords,
      TenRecords, << >> } \cup VarintRecordSets

\* preset files written by hand
UnsortedPreset == << << "2", " ", "2", " ", "u", "1", "6", "l", "e" >>, << "0", " ", "1", " ", "u", "8" >> >>
ScenarioPreset == << << "0", " ", "1", " ", "u", "8" >>, << "2", " ", "2", " ", "u", "1", "6", "l", "e" >> >>
BadLengthPreset == << << "0", " ", "1", " ", "u", "8" >>, << "1", " ", "x", " ", "u", "8" >> >>
BadTypePreset == << << "3", " ", "1", " ", "h", "e", "x" >>, << "0", " ", "1", " ", "u", "9" >> >>
NotePreset == << << "#", " ", "v", "1" >>, << "1", " ", "1", " ", "h", "e", "x" >>, << >> >>

NameA == << "a" >>
NameB == << "b" >>
NameC == << "c" >>

NoFiles == [p \in { } |-> << >>]
\* a preset edited by hand: two fields that overlap, one of length 0 inside
\* them, one that touches the second
MalformedPreset ==
    << << "1", " ", "2", " ", "u", "1", "6", "b", "e" >>,
       << "0", " ", "2", " ", "u", "1", "6", "l", "e" >>,
       << "1", " ", "0", " ", "u", "8" >>,
       << "3", " ", "1", " ", "h", "e", "x" >> >>
MalformedFiles == (<< "config", NameA >> :> MalformedPreset)

InitialFileSystems ==
    { NoFiles,
      (<< "config", NameA >> :> UnsortedPreset) @@ (<< "cwd", NameB >> :> BadLengthPreset),
      (<< "local", NameA >> :> NotePreset) @@ (<< "config", NameB >> :> BadTypePreset)
         @@ (<< "cwd", NameA >> :> ScenarioPreset),
      MalformedFiles }

\* record files in length16 format: path -> bytes
DataFiles ==
    (<< "d" >> :> << 4, 0, 1, 2, 3, 4, 0, 0, 2, 0, 9, 9 >>)
       @@ (<< "t" >> :> << 2, 0, 7, 7, 3, 0, 1 >>)
       @@ (<< "z" >> :> << >>)

\* open_file's read loop: Ok(records), or Err on a record cut short
RECURSIVE read_length16(_, _)
read_length16(bytes, acc) ==
    IF Len(bytes) < 2 THEN [ok |-> TRUE, records |-> acc]
    ELSE LET len == bytes[1] + 256 * bytes[2]
             rest == SubSeq(bytes, 3, Len(bytes))
         IN  IF len = 0 THEN read_length16(rest, Append(acc, << >>))
             ELSE IF Len(rest) < len THEN [ok |-> FALSE, records |-> << >>]
             ELSE read_length16(SubSeq(rest, len + 1, Len(rest)),
                                Append(acc, SubSeq(rest, 1, len)))

(***************************************************************************)
(* Frequencies                                                             *)
(***************************************************************************)
\* compute_frequencies: per byte position (from 1 here) the count of every
\* byte value found there; the values not in a position's domain count 0
compute_frequencies(recs) ==
    LET lens == { Len(recs[r]) : r \in DOMAIN recs }
        max_len == IF lens = { } THEN 0 ELSE CHOOSE m \in lens : \A n \in lens : n <= m
    IN  [pos \in 1 .. max_len |->
            LET here == { r \in DOMAIN recs : Len(recs[r]) >= pos }
            IN  [b \in { recs[r][pos] : r \in here } |->
                    Cardinality({ r \in here : recs[r][pos] = b })]]

\* byte_frequencies[pos][byte]: the count the table holds, 0 where it holds none
frequency_at(table, pos, byte) ==
    IF byte \in DOMAIN table[pos + 1] THEN table[pos + 1][byte] ELSE 0

\* the match on pct with the arms of cyan and blue exchanged
frequency_color_low_exchanged(table, total, pos, byte) ==
    IF pos >= Len(table) THEN "DarkGray"
    ELSE IF total = 0 THEN "DarkGray"
    ELSE LET pct == (frequency_at(table, pos, byte) * 100) \div total
         IN  IF pct >= 80 /\ pct <= 100 THEN "Red"
             ELSE IF pct >= 60 /\ pct <= 79 THEN "Yellow"
             ELSE IF pct >= 40 /\ pct <= 59 THEN "Green"
             ELSE IF pct >= 20 /\ pct <= 39 THEN "Blue"
             ELSE "Cyan"

\* get_frequency_color over a table and a record count; the counts of the
\* record sets here stay far below the u32 range, where freq * 100 is exact
frequency_color(table, total, pos, byte) ==
    IF pos >= Len(table) THEN "DarkGray"
    ELSE IF total = 0 THEN "DarkGray"
    ELSE LET pct == (frequency_at(table, pos, byte) * 100) \div total
         IN  IF pct >= 80 /\ pct <= 100 THEN "Red"
             ELSE IF pct >= 60 /\ pct <= 79 THEN "Yellow"
             ELSE IF pct >= 40 /\ pct <= 59 THEN "Green"
             ELSE IF pct >= 20 /\ pct <= 39 THEN "Cyan"
             ELSE "Blue"

\* get_frequency_color
get_frequency_color(pos, byte) ==
    frequency_color(byte_frequencies, Len(records), pos, byte)

(***************************************************************************)
(* Cursor                                                                  *)
(***************************************************************************)
type_size == unwrap_or(byte_size(current_type), 1)

\* current_field_byte
current_field_byte == field_offset + (current_field * type_size)

\* records.get(current_record).map(|r| r.len()).unwrap_or(0)
current_record_len ==
    IF current_record < Len(records) THEN Len(records[current_record + 1]) ELSE 0

\* draw_records and field_style: the field at byte_pos of the current record
\* is one that gets its colour from get_frequency_color (it is whole, not the
\* cursor's, not locked and not cut by a lock)
frequency_styled(byte_pos) ==
    /\ frequency_mode
    /\ current_record < Len(records)
    /\ byte_pos >= field_offset
    /\ (byte_pos - field_offset) % type_size = 0
    /\ byte_pos + type_size <= current_record_len
    /\ (byte_pos - field_offset) \div type_size # current_field
    /\ ~(show_locks /\ \E i \in DOMAIN locked_fields :
            /\ byte_pos >= locked_fields[i].byte_offset
            /\ byte_pos < locked_fields[i].byte_offset + locked_fields[i].byte_length)
    /\ ~(show_locks /\ \E i \in DOMAIN locked_fields :
            /\ byte_pos < locked_fields[i].byte_offset
            /\ byte_pos + type_size > locked_fields[i].byte_offset)

\* record.get(byte_pos).copied().unwrap_or(0) on the current record
byte_val(byte_pos) ==
    IF byte_pos < current_record_len THEN records[current_record + 1][byte_pos + 1] ELSE 0

\* field_count
field_count(record_len) ==
    IF record_len <= field_offset THEN 0 ELSE (record_len - field_offset) \div type_size

\* max_fields
max_fields == field_count(current_record_len)

\* get_count falling back to 0 and without max(1)
get_count_zero_default == unwrap_or(parse_usize(count_buffer), 0)

\* move_down without min(max_idx)
move_down_record_unclamped(count) == wrapping_add(current_record, count)

\* get_count: the count the buffer stands for
get_count == Max(unwrap_or(parse_usize(count_buffer), 1), 1)

\* the scroll_offset that follows the cursor down (move_down, page_down)
follow_down(cr) ==
    IF cr >= scroll_offset + visible_records
    THEN saturating_sub(cr, wrapping_sub(visible_records, 1))
    ELSE scroll_offset

follow_down_panics(cr) ==
    cr >= scroll_offset + visible_records /\ sub_overflows(visible_records, 1)

\* move_down
move_down_record(count) ==
    Min(wrapping_add(current_record, count), saturating_sub(Len(records), 1))

move_down_panics(count) ==
    \/ add_overflows(current_record, count)
    \/ follow_down_panics(move_down_record(count))

\* move_up, page_up
move_up_record(count) == saturating_sub(current_record, count)
follow_up(cr) == IF cr < scroll_offset THEN cr ELSE scroll_offset

\* page_down
page_down_record ==
    Min(current_record + (visible_records \div 2), saturating_sub(Len(records), 1))

\* records.len() - 1 in wrapping arithmetic, where jump_to_end saturates
jump_to_end_record_wrapping == wrapping_sub(Len(records), 1)

\* jump_to_end
jump_to_end_record == saturating_sub(Len(records), 1)
jump_to_end_scroll ==
    IF jump_to_end_record >= visible_records
    THEN saturating_sub(jump_to_end_record, wrapping_sub(visible_records, 1))
    ELSE scroll_offset
jump_to_end_panics ==
    jump_to_end_record >= visible_records /\ sub_overflows(visible_records, 1)

\* only yo counting as a prefix
toggle_matched_yo_only == pending_yo
\* handle_toggle: is a toggle prefix pending, and what the flag becomes
toggle_matched == pending_yo \/ pending_open_bracket \/ pending_close_bracket
\* yo forcing the flag on where it inverts it
toggle_value_yo_forces(flag) ==
    IF pending_yo THEN TRUE ELSE IF pending_open_bracket THEN TRUE ELSE FALSE
\* '[' and ']' inverting the flag where they force it
toggle_value_inverts(flag) == ~flag
toggle_value(flag) ==
    IF pending_yo THEN ~flag ELSE IF pending_open_bracket THEN TRUE ELSE FALSE
toggle_message(flag, on_msg, off_msg) ==
    IF pending_yo THEN (IF ~flag THEN << on_msg >> ELSE << off_msg >>)
    ELSE IF pending_open_bracket THEN << on_msg >> ELSE << off_msg >>

(***************************************************************************)
(* The command line                                                        *)
(***************************************************************************)
\* what execute_command may change, as it stands before the command
unchanged_by_command ==
    [message |-> message, locked_fields |-> locked_fields,
     current_preset |-> current_preset, fs |-> fs, settings_file |-> settings_file,
     records |-> records, current_record |-> current_record,
     scroll_offset |-> scroll_offset, field_offset |-> field_offset,
     current_field |-> current_field, quit |-> FALSE]

\* cmd_write without the test for an existing file
cmd_write_unchecked(arg, force, io) ==
    LET nm == IF arg # None THEN arg ELSE current_preset
    IN  IF nm = None
        THEN [unchanged_by_command EXCEPT
                !.message = Some(<< "No preset loaded. Usage: <preset_name>",
                                    IF force THEN ":w!" ELSE ":w" >>)]
        ELSE IF io = "mkdir_fails"
        THEN [unchanged_by_command EXCEPT
                !.message = Some(<< "Failed to create preset dir" >>)]
        ELSE IF io = "write_fails"
        THEN [unchanged_by_command EXCEPT !.message = Some(<< "Failed to save" >>)]
        ELSE [unchanged_by_command EXCEPT
                !.message = Some(<< "Saved to", nm[1] >>),
                !.fs = write_file(fs, << "config", nm[1] >>,
                                  save_preset_content(locked_fields))]

\* cmd_write.  io is "ok", "mkdir_fails" or "write_fails".
cmd_write(arg, force, io) ==
    LET nm == IF arg # None THEN arg ELSE current_preset
    IN  IF nm = None
        THEN [unchanged_by_command EXCEPT
                !.message = Some(<< "No preset loaded. Usage: <preset_name>",
                                    IF force THEN ":w!" ELSE ":w" >>)]
        ELSE IF ~force /\ arg # None /\ exists(fs, resolve_preset_path(fs, nm[1]))
        THEN [unchanged_by_command EXCEPT
                !.message = Some(<< "exists. Use :w! to overwrite", nm[1] >>)]
        ELSE IF io = "mkdir_fails"
        THEN [unchanged_by_command EXCEPT
                !.message = Some(<< "Failed to create preset dir" >>)]
        ELSE IF io = "write_fails"
        THEN [unchanged_by_command EXCEPT !.message = Some(<< "Failed to save" >>)]
        ELSE [unchanged_by_command EXCEPT
                !.message = Some(<< "Saved to", nm[1] >>),
                !.fs = write_file(fs, << "config", nm[1] >>,
                                  save_preset_content(locked_fields))]

\* cmd_preset recording the name whether or not the load succeeded
cmd_preset_names_on_failure(arg, io) ==
    LET nm == IF arg # None THEN arg ELSE current_preset
    IN  IF nm = None
        THEN [unchanged_by_command EXCEPT
                !.message = Some(<< "No preset loaded. Usage: :p <preset_name>" >>)]
        ELSE LET r == load_preset_result(fs, nm[1], io = "ok")
             IN  IF r.ok
                 THEN [unchanged_by_command EXCEPT
                         !.locked_fields = sort_by_offset(r.fields),
                         !.current_preset = Some(nm[1]),
                         !.message = Some(<< "Loaded preset (fields)", nm[1], Len(r.fields) >>)]
                 ELSE [unchanged_by_command EXCEPT
                         !.current_preset = Some(nm[1]),
                         !.message = Some(r.err)]

\* cmd_preset, with load_preset's assignment and sort
cmd_preset(arg, io) ==
    LET nm == IF arg # None THEN arg ELSE current_preset
    IN  IF nm = None
        THEN [unchanged_by_command EXCEPT
                !.message = Some(<< "No preset loaded. Usage: :p <preset_name>" >>)]
        ELSE LET r == load_preset_result(fs, nm[1], io = "ok")
             IN  IF r.ok
                 THEN [unchanged_by_command EXCEPT
                         !.locked_fields = sort_by_offset(r.fields),
                         !.current_preset = Some(nm[1]),
                         !.message = Some(<< "Loaded preset (fields)", nm[1], Len(r.fields) >>)]
                 ELSE [unchanged_by_command EXCEPT !.message = Some(r.err)]

\* cmd_open with an open_file that drops the locked fields with the records
cmd_open_drops_locks(arg, io) ==
    IF arg = None
    THEN [unchanged_by_command EXCEPT !.message = Some(<< "Usage: :e <filename>" >>)]
    ELSE IF arg[1] \notin DOMAIN DataFiles \/ io # "ok"
    THEN [unchanged_by_command EXCEPT !.message = Some(<< "Failed to open", arg[1] >>)]
    ELSE LET r == read_length16(DataFiles[arg[1]], << >>)
         IN  IF ~r.ok
             THEN [unchanged_by_command EXCEPT !.message = Some(<< "Read error" >>)]
             ELSE [unchanged_by_command EXCEPT
                     !.records = r.records,
                     !.current_record = 0,
                     !.scroll_offset = 0,
                     !.field_offset = 0,
                     !.current_field = 0,
                     !.locked_fields = << >>,
                     !.message = Some(<< "Opened (records)", arg[1], Len(r.records) >>)]

\* cmd_open, with open_file
cmd_open(arg, io) ==
    IF arg = None
    THEN [unchanged_by_command EXCEPT !.message = Some(<< "Usage: :e <filename>" >>)]
    ELSE IF arg[1] \notin DOMAIN DataFiles \/ io # "ok"
    THEN [unchanged_by_command EXCEPT !.message = Some(<< "Failed to open", arg[1] >>)]
    ELSE LET r == read_length16(DataFiles[arg[1]], << >>)
         IN  IF ~r.ok
             THEN [unchanged_by_command EXCEPT !.message = Some(<< "Read error" >>)]
             ELSE [unchanged_by_command EXCEPT
                     !.records = r.records,
                     !.current_record = 0,
                     !.scroll_offset = 0,
                     !.field_offset = 0,
                     !.current_field = 0,
                     !.message = Some(<< "Opened (records)", arg[1], Len(r.records) >>)]

\* save_config
cmd_save(io) ==
    IF io = "mkdir_fails"
    THEN [unchanged_by_command EXCEPT !.message = Some(<< "Failed to create config dir" >>)]
    ELSE IF io = "write_fails"
    THEN [unchanged_by_command EXCEPT !.message = Some(<< "Failed to save" >>)]
    ELSE [unchanged_by_command EXCEPT
            !.settings_file = Some([wrap_mode |-> wrap_mode,
                                    frequency_mode |-> frequency_mode]),
            !.message = Some(<< "Saved config to settings.json" >>)]

\* execute_command taking a verb it does not know for :q
execute_command_unknown_quits(io) ==
    LET cmd == trim(command_buffer)
        parts == splitn2(cmd)
        verb == parts[1]
        arg == IF Len(parts) >= 2 THEN Some(parts[2]) ELSE None
    IN  IF cmd = << >> THEN unchanged_by_command
        ELSE CASE verb \in { V_w, V_write } -> cmd_write(arg, FALSE, io)
               [] verb \in { V_w_bang, V_write_bang } -> cmd_write(arg, TRUE, io)
               [] verb \in { V_p, V_preset } -> cmd_preset(arg, io)
               [] verb \in { V_e, V_o, V_open, V_edit } -> cmd_open(arg, io)
               [] verb = V_clear ->
                    [unchanged_by_command EXCEPT
                        !.locked_fields = << >>,
                        !.message = Some(<< "Cleared all locked fields" >>)]
               [] verb \in { V_s, V_save } -> cmd_save(io)
               [] verb \in { V_q, V_quit } -> [unchanged_by_command EXCEPT !.quit = TRUE]
               [] OTHER ->
                    [unchanged_by_command EXCEPT !.quit = TRUE]

\* execute_command, after the buffer is taken and command mode left
execute_command(io) ==
    LET cmd == trim(command_buffer)
        parts == splitn2(cmd)
        verb == parts[1]
        arg == IF Len(parts) >= 2 THEN Some(parts[2]) ELSE None
    IN  IF cmd = << >> THEN unchanged_by_command
        ELSE CASE verb \in { V_w, V_write } -> cmd_write(arg, FALSE, io)
               [] verb \in { V_w_bang, V_write_bang } -> cmd_write(arg, TRUE, io)
               [] verb \in { V_p, V_preset } -> cmd_preset(arg, io)
               [] verb \in { V_e, V_o, V_open, V_edit } -> cmd_open(arg, io)
               [] verb = V_clear ->
                    [unchanged_by_command EXCEPT
                        !.locked_fields = << >>,
                        !.message = Some(<< "Cleared all locked fields" >>)]
               [] verb \in { V_s, V_save } -> cmd_save(io)
               [] verb \in { V_q, V_quit } -> [unchanged_by_command EXCEPT !.quit = TRUE]
               [] OTHER ->
                    [unchanged_by_command EXCEPT
                        !.message = Some(<< "Unknown command:", verb >>)]

(***************************************************************************)
(* Init: InteractiveState::new, before run_interactive's first step        *)
(***************************************************************************)
Init ==
    /\ records \in RecordSets
    /\ current_record = 0
    /\ field_offset = 0
    /\ current_field = 0
    /\ current_type = "U8"
    /\ locked_fields = << >>
    /\ scroll_offset = 0
    /\ visible_records = 10
    /\ message = None
    /\ command_mode = FALSE
    /\ command_buffer = << >>
    /\ current_preset = None
    /\ count_buffer = << >>
    /\ frequency_mode = FALSE
    /\ byte_frequencies = << >>
    /\ pending_g = FALSE
    /\ pending_y = FALSE
    /\ pending_yo = FALSE
    /\ pending_open_bracket = FALSE
    /\ pending_close_bracket = FALSE
    /\ wrap_mode = FALSE
    /\ horizontal_scroll = 0
    /\ terminal_width = 80
    /\ show_locks = TRUE
    /\ show_gutter = TRUE
    /\ fs \in InitialFileSystems
    /\ settings_file = None
    /\ overflow_checks \in BOOLEAN
    /\ pc = "start"

\* an overflow check of the build fired: the process is gone
Panic == pc' = "panicked" /\ UNCHANGED << state_vars, env_vars >>

\* handle_key running on every event read, the command line open or not
NormalMode_any == pc = "read"

\* handle_key runs: an event was read and the command line is not open
NormalMode == pc = "read" /\ ~command_mode

(***************************************************************************)
(* Normal mode: handle_key, one action per arm of its match                *)
(***************************************************************************)
\* ':'
Key_colon ==
    /\ NormalMode
    /\ message' = None
    /\ command_mode' = TRUE
    /\ command_buffer' = << >>
    /\ pc' = "draw"
    /\ UNCHANGED << records, current_record, field_offset, current_field, current_type,
                    locked_fields, scroll_offset, visible_records, current_preset,
                    count_buffer, frequency_mode, byte_frequencies, pending_g, pending_y,
                    pending_yo, pending_open_bracket, pending_close_bracket, wrap_mode,
                    horizontal_scroll, terminal_width, show_locks, show_gutter, fs,
                    settings_file, overflow_checks >>

\* Tab
Key_Tab ==
    /\ NormalMode
    /\ current_type' = next(current_type)
    /\ message' = Some(<< "Type:", name(next(current_type)) >>)
    /\ pc' = "draw"
    /\ UNCHANGED << records, current_record, field_offset, current_field, locked_fields,
                    scroll_offset, visible_records, command_mode, command_buffer,
                    current_preset, count_buffer, frequency_mode, byte_frequencies,
                    pending_g, pending_y, pending_yo, pending_open_bracket,
                    pending_close_bracket, wrap_mode, horizontal_scroll, terminal_width,
                    show_locks, show_gutter, fs, settings_file, overflow_checks >>

\* Shift-Tab
Key_BackTab ==
    /\ NormalMode
    /\ current_type' = prev(current_type)
    /\ message' = Some(<< "Type:", name(prev(current_type)) >>)
    /\ pc' = "draw"
    /\ UNCHANGED << records, current_record, field_offset, current_field, locked_fields,
                    scroll_offset, visible_records, command_mode, command_buffer,
                    current_preset, count_buffer, frequency_mode, byte_frequencies,
                    pending_g, pending_y, pending_yo, pending_open_bracket,
                    pending_close_bracket, wrap_mode, horizontal_scroll, terminal_width,
                    show_locks, show_gutter, fs, settings_file, overflow_checks >>

\* 'h': clear_pending, shift_offset_backward
Key_h ==
    /\ NormalMode
    /\ field_offset' = IF field_offset > 0 THEN field_offset - 1 ELSE field_offset
    /\ pending_g' = FALSE
    /\ pending_y' = FALSE
    /\ pending_yo' = FALSE
    /\ pending_open_bracket' = FALSE
    /\ pending_close_bracket' = FALSE
    /\ pc' = "draw"
    /\ UNCHANGED << records, current_record, current_field, current_type, locked_fields,
                    scroll_offset, visible_records, message, command_mode,
                    command_buffer, current_preset, count_buffer, frequency_mode,
                    byte_frequencies, wrap_mode, horizontal_scroll, terminal_width,
                    show_locks, show_gutter, fs, settings_file, overflow_checks >>

\* 'b': clear_pending, move_to_prev_field
Key_b ==
    /\ NormalMode
    /\ current_field' = IF current_field > 0 THEN current_field - 1 ELSE current_field
    /\ pending_g' = FALSE
    /\ pending_y' = FALSE
    /\ pending_yo' = FALSE
    /\ pending_open_bracket' = FALSE
    /\ pending_close_bracket' = FALSE
    /\ pc' = "draw"
    /\ UNCHANGED << records, current_record, field_offset, current_type, locked_fields,
                    scroll_offset, visible_records, message, command_mode,
                    command_buffer, current_preset, count_buffer, frequency_mode,
                    byte_frequencies, wrap_mode, horizontal_scroll, terminal_width,
                    show_locks, show_gutter, fs, settings_file, overflow_checks >>

\* '1'..'9'.  The buffer has no limit in the source; MaxCountLen bounds it here.
Key_digit(c) ==
    /\ NormalMode
    /\ c \in { "1", "2", "3", "4", "5", "6", "7", "8", "9" }
    /\ Len(count_buffer) < MaxCountLen
    /\ count_buffer' = Append(count_buffer, c)
    /\ pending_g' = FALSE
    /\ pending_y' = FALSE
    /\ pending_yo' = FALSE
    /\ pending_open_bracket' = FALSE
    /\ pending_close_bracket' = FALSE
    /\ pc' = "draw"
    /\ UNCHANGED << records, current_record, field_offset, current_field, current_type,
                    locked_fields, scroll_offset, visible_records, message, command_mode,
                    command_buffer, current_preset, frequency_mode, byte_frequencies,
                    wrap_mode, horizontal_scroll, terminal_width, show_locks,
                    show_gutter, fs, settings_file, overflow_checks >>

\* '0': a digit of the count when one is being typed, else the first field
Key_0 ==
    /\ NormalMode
    /\ count_buffer = << >> \/ Len(count_buffer) < MaxCountLen
    /\ current_field' = IF count_buffer # << >> THEN current_field ELSE 0
    /\ count_buffer' = IF count_buffer # << >> THEN Append(count_buffer, "0") ELSE count_buffer
    /\ pending_g' = IF count_buffer # << >> THEN pending_g ELSE FALSE
    /\ pending_y' = IF count_buffer # << >> THEN pending_y ELSE FALSE
    /\ pending_yo' = IF count_buffer # << >> THEN pending_yo ELSE FALSE
    /\ pending_open_bracket' = IF count_buffer # << >> THEN pending_open_bracket ELSE FALSE
    /\ pending_close_bracket' = IF count_buffer # << >> THEN pending_close_bracket ELSE FALSE
    /\ pc' = "draw"
    /\ UNCHANGED << records, current_record, field_offset, current_type, locked_fields,
                    scroll_offset, visible_records, message, command_mode,
                    command_buffer, current_preset, frequency_mode, byte_frequencies,
                    wrap_mode, horizontal_scroll, terminal_width, show_locks,
                    show_gutter, fs, settings_file, overflow_checks >>

\* '$'
Key_dollar ==
    /\ NormalMode
    /\ current_field' = saturating_sub(max_fields, 1)
    /\ count_buffer' = << >>
    /\ pending_g' = FALSE
    /\ pending_y' = FALSE
    /\ pending_yo' = FALSE
    /\ pending_open_bracket' = FALSE
    /\ pending_close_bracket' = FALSE
    /\ pc' = "draw"
    /\ UNCHANGED << records, current_record, field_offset, current_type, locked_fields,
                    scroll_offset, visible_records, message, command_mode,
                    command_buffer, current_preset, frequency_mode, byte_frequencies,
                    wrap_mode, horizontal_scroll, terminal_width, show_locks,
                    show_gutter, fs, settings_file, overflow_checks >>

\* 'j', Down: get_count, move_down
Key_j ==
    /\ NormalMode
    /\ IF overflow_checks /\ move_down_panics(get_count)
       THEN Panic
       ELSE
         /\ current_record' = move_down_record(get_count)
         /\ scroll_offset' = follow_down(move_down_record(get_count))
         /\ count_buffer' = << >>
         /\ pending_g' = FALSE
         /\ pc' = "draw"
         /\ UNCHANGED << records, field_offset, current_field, current_type,
                         locked_fields, visible_records, message, command_mode,
                         command_buffer, current_preset, frequency_mode,
                         byte_frequencies, pending_y, pending_yo, pending_open_bracket,
                         pending_close_bracket, wrap_mode, horizontal_scroll,
                         terminal_width, show_locks, show_gutter, fs, settings_file,
                         overflow_checks >>

\* 'k', Up: get_count, move_up
Key_k ==
    /\ NormalMode
    /\ current_record' = move_up_record(get_count)
    /\ scroll_offset' = follow_up(move_up_record(get_count))
    /\ count_buffer' = << >>
    /\ pending_g' = FALSE
    /\ pc' = "draw"
    /\ UNCHANGED << records, field_offset, current_field, current_type, locked_fields,
                    visible_records, message, command_mode, command_buffer,
                    current_preset, frequency_mode, byte_frequencies, pending_y,
                    pending_yo, pending_open_bracket, pending_close_bracket, wrap_mode,
                    horizontal_scroll, terminal_width, show_locks, show_gutter, fs,
                    settings_file, overflow_checks >>

\* Ctrl-d, PageDown: page_down
Key_ctrl_d ==
    /\ NormalMode
    /\ IF overflow_checks /\ follow_down_panics(page_down_record)
       THEN Panic
       ELSE
         /\ current_record' = page_down_record
         /\ scroll_offset' = follow_down(page_down_record)
         /\ count_buffer' = << >>
         /\ pending_g' = FALSE
         /\ pc' = "draw"
         /\ UNCHANGED << records, field_offset, current_field, current_type,
                         locked_fields, visible_records, message, command_mode,
                         command_buffer, current_preset, frequency_mode,
                         byte_frequencies, pending_y, pending_yo, pending_open_bracket,
                         pending_close_bracket, wrap_mode, horizontal_scroll,
                         terminal_width, show_locks, show_gutter, fs, settings_file,
                         overflow_checks >>

\* Ctrl-u, PageUp: page_up
Key_ctrl_u ==
    /\ NormalMode
    /\ current_record' = move_up_record(visible_records \div 2)
    /\ scroll_offset' = follow_up(move_up_record(visible_records \div 2))
    /\ count_buffer' = << >>
    /\ pending_g' = FALSE
    /\ pc' = "draw"
    /\ UNCHANGED << records, field_offset, current_field, current_type, locked_fields,
                    visible_records, message, command_mode, command_buffer,
                    current_preset, frequency_mode, byte_frequencies, pending_y,
                    pending_yo, pending_open_bracket, pending_close_bracket, wrap_mode,
                    horizontal_scroll, terminal_width, show_locks, show_gutter, fs,
                    settings_file, overflow_checks >>

\* 'L': get_count, lock_current.  MaxLocked bounds the registry here: a lock
\* that would add a field beyond it is left out, a rejected one is not.
Key_L ==
    /\ NormalMode
    /\ \/ Len(locked_fields) < MaxLocked
       \/ lock_result(locked_fields, current_field_byte, current_type,
                      get_count, current_record_len).outcome # "locked"
    /\ LET r == lock_result(locked_fields, current_field_byte, current_type,
                            get_count, current_record_len)
       IN
          /\ IF overflow_checks /\ lock_panics(locked_fields, current_field_byte, type_size,
                                            get_count, current_record_len)
             THEN Panic
             ELSE
               /\ locked_fields' = r.fields
               /\ message' = Some(r.message)
               /\ count_buffer' = << >>
               /\ pending_g' = FALSE
               /\ pc' = "draw"
               /\ UNCHANGED << records, current_record, field_offset, current_field,
                               current_type, scroll_offset, visible_records,
                               command_mode, command_buffer, current_preset,
                               frequency_mode, byte_frequencies, pending_y, pending_yo,
                               pending_open_bracket, pending_close_bracket, wrap_mode,
                               horizontal_scroll, terminal_width, show_locks,
                               show_gutter, fs, settings_file, overflow_checks >>

\* 'U': unlock_at_cursor
Key_U ==
    /\ NormalMode
    /\ IF overflow_checks /\ unlock_panics(locked_fields, current_field_byte)
       THEN Panic
       ELSE
         /\ locked_fields' = unlock_result(locked_fields, current_field_byte)
         /\ message' = IF Len(unlock_result(locked_fields, current_field_byte)) < Len(locked_fields)
              THEN Some(<< "Unlocked field" >>)
              ELSE message
         /\ count_buffer' = << >>
         /\ pending_g' = FALSE
         /\ pc' = "draw"
         /\ UNCHANGED << records, current_record, field_offset, current_field,
                         current_type, scroll_offset, visible_records, command_mode,
                         command_buffer, current_preset, frequency_mode,
                         byte_frequencies, pending_y, pending_yo, pending_open_bracket,
                         pending_close_bracket, wrap_mode, horizontal_scroll,
                         terminal_width, show_locks, show_gutter, fs, settings_file,
                         overflow_checks >>

\* 'G': jump_to_end
Key_G ==
    /\ NormalMode
    /\ IF overflow_checks /\ jump_to_end_panics
       THEN Panic
       ELSE
         /\ current_record' = jump_to_end_record
         /\ scroll_offset' = jump_to_end_scroll
         /\ message' = Some(<< "Jumped to last record" >>)
         /\ count_buffer' = << >>
         /\ pending_g' = FALSE
         /\ pending_y' = FALSE
         /\ pending_yo' = FALSE
         /\ pending_open_bracket' = FALSE
         /\ pending_close_bracket' = FALSE
         /\ pc' = "draw"
         /\ UNCHANGED << records, field_offset, current_field, current_type,
                         locked_fields, visible_records, command_mode, command_buffer,
                         current_preset, frequency_mode, byte_frequencies, wrap_mode,
                         horizontal_scroll, terminal_width, show_locks, show_gutter, fs,
                         settings_file, overflow_checks >>

\* 'y' setting its prefix without clear_pending
Key_y_keeps_pending ==
    /\ NormalMode
    /\ pending_y' = TRUE
    /\ pc' = "draw"
    /\ UNCHANGED << records, current_record, field_offset, current_field, current_type,
                    locked_fields, scroll_offset, visible_records, message, command_mode,
                    command_buffer, current_preset, count_buffer, frequency_mode,
                    byte_frequencies, pending_g, pending_yo, pending_open_bracket,
                    pending_close_bracket, wrap_mode, horizontal_scroll, terminal_width,
                    show_locks, show_gutter, fs, settings_file, overflow_checks >>

\* 'y'
Key_y ==
    /\ NormalMode
    /\ pending_g' = FALSE
    /\ pending_y' = TRUE
    /\ pending_yo' = FALSE
    /\ pending_open_bracket' = FALSE
    /\ pending_close_bracket' = FALSE
    /\ pc' = "draw"
    /\ UNCHANGED << records, current_record, field_offset, current_field, current_type,
                    locked_fields, scroll_offset, visible_records, message, command_mode,
                    command_buffer, current_preset, count_buffer, frequency_mode,
                    byte_frequencies, wrap_mode, horizontal_scroll, terminal_width,
                    show_locks, show_gutter, fs, settings_file, overflow_checks >>

\* 'o': after y the yo prefix, else clear_pending
Key_o ==
    /\ NormalMode
    /\ pending_g' = IF pending_y THEN pending_g ELSE FALSE
    /\ pending_y' = FALSE
    /\ pending_yo' = IF pending_y THEN TRUE ELSE FALSE
    /\ pending_open_bracket' = IF pending_y THEN pending_open_bracket ELSE FALSE
    /\ pending_close_bracket' = IF pending_y THEN pending_close_bracket ELSE FALSE
    /\ pc' = "draw"
    /\ UNCHANGED << records, current_record, field_offset, current_field, current_type,
                    locked_fields, scroll_offset, visible_records, message, command_mode,
                    command_buffer, current_preset, count_buffer, frequency_mode,
                    byte_frequencies, wrap_mode, horizontal_scroll, terminal_width,
                    show_locks, show_gutter, fs, settings_file, overflow_checks >>

\* '['
Key_open_bracket ==
    /\ NormalMode
    /\ pending_g' = FALSE
    /\ pending_y' = FALSE
    /\ pending_yo' = FALSE
    /\ pending_open_bracket' = TRUE
    /\ pending_close_bracket' = FALSE
    /\ pc' = "draw"
    /\ UNCHANGED << records, current_record, field_offset, current_field, current_type,
                    locked_fields, scroll_offset, visible_records, message, command_mode,
                    command_buffer, current_preset, count_buffer, frequency_mode,
                    byte_frequencies, wrap_mode, horizontal_scroll, terminal_width,
                    show_locks, show_gutter, fs, settings_file, overflow_checks >>

\* ']'
Key_close_bracket ==
    /\ NormalMode
    /\ pending_g' = FALSE
    /\ pending_y' = FALSE
    /\ pending_yo' = FALSE
    /\ pending_open_bracket' = FALSE
    /\ pending_close_bracket' = TRUE
    /\ pc' = "draw"
    /\ UNCHANGED << records, current_record, field_offset, current_field, current_type,
                    locked_fields, scroll_offset, visible_records, message, command_mode,
                    command_buffer, current_preset, count_buffer, frequency_mode,
                    byte_frequencies, wrap_mode, horizontal_scroll, terminal_width,
                    show_locks, show_gutter, fs, settings_file, overflow_checks >>

\* 'f': handle_toggle(Frequency), compute_frequencies when it is now on
Key_f ==
    /\ NormalMode
    /\ message' = IF toggle_matched THEN Some(toggle_message(frequency_mode, "Frequency mode ON", "Frequency mode OFF")) ELSE message
    /\ count_buffer' = IF toggle_matched THEN << >> ELSE count_buffer
    /\ frequency_mode' = IF toggle_matched THEN toggle_value(frequency_mode) ELSE frequency_mode
    /\ byte_frequencies' = IF toggle_matched /\ toggle_value(frequency_mode)
         THEN compute_frequencies(records)
         ELSE byte_frequencies
    /\ pending_g' = FALSE
    /\ pending_y' = FALSE
    /\ pending_yo' = FALSE
    /\ pending_open_bracket' = FALSE
    /\ pending_close_bracket' = FALSE
    /\ pc' = "draw"
    /\ UNCHANGED << records, current_record, field_offset, current_field, current_type,
                    locked_fields, scroll_offset, visible_records, command_mode,
                    command_buffer, current_preset, wrap_mode, horizontal_scroll,
                    terminal_width, show_locks, show_gutter, fs, settings_file,
                    overflow_checks >>

\* 'w': handle_toggle(Wrap), else move_to_next_field
Key_w ==
    /\ NormalMode
    /\ current_field' = IF ~toggle_matched /\ current_field + 1 < max_fields
         THEN current_field + 1
         ELSE current_field
    /\ message' = IF toggle_matched THEN Some(toggle_message(wrap_mode, "Wrap ON", "Wrap OFF")) ELSE message
    /\ count_buffer' = IF toggle_matched THEN << >> ELSE count_buffer
    /\ pending_g' = FALSE
    /\ pending_y' = FALSE
    /\ pending_yo' = FALSE
    /\ pending_open_bracket' = FALSE
    /\ pending_close_bracket' = FALSE
    /\ wrap_mode' = IF toggle_matched THEN toggle_value(wrap_mode) ELSE wrap_mode
    /\ horizontal_scroll' = IF toggle_matched THEN 0 ELSE horizontal_scroll
    /\ pc' = "draw"
    /\ UNCHANGED << records, current_record, field_offset, current_type, locked_fields,
                    scroll_offset, visible_records, command_mode, command_buffer,
                    current_preset, frequency_mode, byte_frequencies, terminal_width,
                    show_locks, show_gutter, fs, settings_file, overflow_checks >>

\* 'l': handle_toggle(ShowLocks), else shift_offset_forward
Key_l ==
    /\ NormalMode
    /\ field_offset' = IF ~toggle_matched /\ field_offset + 1 < Min(type_size, current_record_len)
         THEN field_offset + 1
         ELSE field_offset
    /\ message' = IF toggle_matched THEN Some(toggle_message(show_locks, "Locks ON", "Locks OFF")) ELSE message
    /\ count_buffer' = IF toggle_matched THEN << >> ELSE count_buffer
    /\ pending_g' = FALSE
    /\ pending_y' = FALSE
    /\ pending_yo' = FALSE
    /\ pending_open_bracket' = FALSE
    /\ pending_close_bracket' = FALSE
    /\ show_locks' = IF toggle_matched THEN toggle_value(show_locks) ELSE show_locks
    /\ pc' = "draw"
    /\ UNCHANGED << records, current_record, current_field, current_type, locked_fields,
                    scroll_offset, visible_records, command_mode, command_buffer,
                    current_preset, frequency_mode, byte_frequencies, wrap_mode,
                    horizontal_scroll, terminal_width, show_gutter, fs, settings_file,
                    overflow_checks >>

\* 'g': handle_toggle(ShowGutter), else gg (jump_to_start) or the g prefix
Key_g ==
    /\ NormalMode
    /\ current_record' = IF ~toggle_matched /\ pending_g THEN 0 ELSE current_record
    /\ scroll_offset' = IF ~toggle_matched /\ pending_g THEN 0 ELSE scroll_offset
    /\ message' = IF toggle_matched
         THEN Some(toggle_message(show_gutter, "Gutter ON", "Gutter OFF"))
         ELSE IF pending_g THEN Some(<< "Jumped to first record" >>) ELSE message
    /\ count_buffer' = IF toggle_matched \/ pending_g THEN << >> ELSE count_buffer
    /\ pending_g' = ~toggle_matched /\ ~pending_g
    /\ pending_y' = FALSE
    /\ pending_yo' = FALSE
    /\ pending_open_bracket' = FALSE
    /\ pending_close_bracket' = FALSE
    /\ show_gutter' = IF toggle_matched THEN toggle_value(show_gutter) ELSE show_gutter
    /\ pc' = "draw"
    /\ UNCHANGED << records, field_offset, current_field, current_type, locked_fields,
                    visible_records, command_mode, command_buffer, current_preset,
                    frequency_mode, byte_frequencies, wrap_mode, horizontal_scroll,
                    terminal_width, show_locks, fs, settings_file, overflow_checks >>

\* any other key
Key_other ==
    /\ NormalMode
    /\ count_buffer' = << >>
    /\ pending_g' = FALSE
    /\ pending_y' = FALSE
    /\ pending_yo' = FALSE
    /\ pending_open_bracket' = FALSE
    /\ pending_close_bracket' = FALSE
    /\ pc' = "draw"
    /\ UNCHANGED << records, current_record, field_offset, current_field, current_type,
                    locked_fields, scroll_offset, visible_records, message, command_mode,
                    command_buffer, current_preset, frequency_mode, byte_frequencies,
                    wrap_mode, horizontal_scroll, terminal_width, show_locks,
                    show_gutter, fs, settings_file, overflow_checks >>

(***************************************************************************)
(* Command mode: handle_command_input                                      *)
(***************************************************************************)
CommandMode == pc = "read" /\ command_mode

\* Enter: execute_command
Cmd_Enter(io) ==
    /\ CommandMode
    /\ io \in { "ok", "mkdir_fails", "write_fails" }
    /\ LET r == execute_command(io)
       IN
          /\ records' = r.records
          /\ current_record' = r.current_record
          /\ field_offset' = r.field_offset
          /\ current_field' = r.current_field
          /\ locked_fields' = r.locked_fields
          /\ scroll_offset' = r.scroll_offset
          /\ message' = r.message
          /\ command_mode' = FALSE
          /\ command_buffer' = << >>
          /\ current_preset' = r.current_preset
          /\ fs' = r.fs
          /\ settings_file' = r.settings_file
          /\ pc' = IF r.quit THEN "exited" ELSE "draw"
          /\ UNCHANGED << current_type, visible_records, count_buffer, frequency_mode,
                          byte_frequencies, pending_g, pending_y, pending_yo,
                          pending_open_bracket, pending_close_bracket, wrap_mode,
                          horizontal_scroll, terminal_width, show_locks, show_gutter,
                          overflow_checks >>

\* Esc leaving the sub-mode with the buffer as it is
Cmd_Esc_keeps_buffer ==
    /\ pc = "read" /\ command_mode
    /\ message' = None
    /\ command_mode' = FALSE
    /\ pc' = "draw"
    /\ UNCHANGED << records, current_record, field_offset, current_field, current_type,
                    locked_fields, scroll_offset, visible_records, command_buffer,
                    current_preset, count_buffer, frequency_mode, byte_frequencies,
                    pending_g, pending_y, pending_yo, pending_open_bracket,
                    pending_close_bracket, wrap_mode, horizontal_scroll, terminal_width,
                    show_locks, show_gutter, fs, settings_file, overflow_checks >>

\* Esc
Cmd_Esc ==
    /\ CommandMode
    /\ message' = None
    /\ command_mode' = FALSE
    /\ command_buffer' = << >>
    /\ pc' = "draw"
    /\ UNCHANGED << records, current_record, field_offset, current_field, current_type,
                    locked_fields, scroll_offset, visible_records, current_preset,
                    count_buffer, frequency_mode, byte_frequencies, pending_g, pending_y,
                    pending_yo, pending_open_bracket, pending_close_bracket, wrap_mode,
                    horizontal_scroll, terminal_width, show_locks, show_gutter, fs,
                    settings_file, overflow_checks >>

\* Backspace: String::pop
Cmd_Backspace ==
    /\ CommandMode
    /\ command_buffer' = IF command_buffer = << >> THEN << >>
         ELSE SubSeq(command_buffer, 1, Len(command_buffer) - 1)
    /\ pc' = "draw"
    /\ UNCHANGED << records, current_record, field_offset, current_field, current_type,
                    locked_fields, scroll_offset, visible_records, message, command_mode,
                    current_preset, count_buffer, frequency_mode, byte_frequencies,
                    pending_g, pending_y, pending_yo, pending_open_bracket,
                    pending_close_bracket, wrap_mode, horizontal_scroll, terminal_width,
                    show_locks, show_gutter, fs, settings_file, overflow_checks >>

\* a character key
Cmd_Char(c) ==
    /\ CommandMode
    /\ command_buffer' = Append(command_buffer, c)
    /\ pc' = "draw"
    /\ UNCHANGED << records, current_record, field_offset, current_field, current_type,
                    locked_fields, scroll_offset, visible_records, message, command_mode,
                    current_preset, count_buffer, frequency_mode, byte_frequencies,
                    pending_g, pending_y, pending_yo, pending_open_bracket,
                    pending_close_bracket, wrap_mode, horizontal_scroll, terminal_width,
                    show_locks, show_gutter, fs, settings_file, overflow_checks >>

\* any other key
Cmd_other ==
    /\ CommandMode
    /\ pc' = "draw"
    /\ UNCHANGED << records, current_record, field_offset, current_field, current_type,
                    locked_fields, scroll_offset, visible_records, message, command_mode,
                    command_buffer, current_preset, count_buffer, frequency_mode,
                    byte_frequencies, pending_g, pending_y, pending_yo,
                    pending_open_bracket, pending_close_bracket, wrap_mode,
                    horizontal_scroll, terminal_width, show_locks, show_gutter, fs,
                    settings_file, overflow_checks >>

(***************************************************************************)
(* run_interactive                                                         *)
(***************************************************************************)
\* no preset was detected
Start ==
    /\ pc = "start"
    /\ pc' = "draw"
    /\ UNCHANGED << records, current_record, field_offset, current_field, current_type,
                    locked_fields, scroll_offset, visible_records, message, command_mode,
                    command_buffer, current_preset, count_buffer, frequency_mode,
                    byte_frequencies, pending_g, pending_y, pending_yo,
                    pending_open_bracket, pending_close_bracket, wrap_mode,
                    horizontal_scroll, terminal_width, show_locks, show_gutter, fs,
                    settings_file, overflow_checks >>

\* a preset was detected: load_preset, and the name is kept either way
StartAutoLoad(preset_name, read_ok) ==
    /\ pc = "start"
    /\ LET r == load_preset_result(fs, preset_name, read_ok)
       IN
          /\ locked_fields' = IF r.ok THEN sort_by_offset(r.fields) ELSE locked_fields
          /\ message' = IF r.ok THEN Some(<< "Auto-loaded preset", preset_name >>)
               ELSE Some(<< "Auto-detect found but failed to load:", preset_name, r.err >>)
          /\ current_preset' = Some(preset_name)
          /\ pc' = "draw"
          /\ UNCHANGED << records, current_record, field_offset, current_field,
                          current_type, scroll_offset, visible_records, command_mode,
                          command_buffer, count_buffer, frequency_mode, byte_frequencies,
                          pending_g, pending_y, pending_yo, pending_open_bracket,
                          pending_close_bracket, wrap_mode, horizontal_scroll,
                          terminal_width, show_locks, show_gutter, fs, settings_file,
                          overflow_checks >>

\* terminal.draw: draw_records stores the size of the records area
Draw(width, height) ==
    /\ pc = "draw"
    /\ visible_records' = height
    /\ terminal_width' = width
    /\ pc' = "read"
    /\ UNCHANGED << records, current_record, field_offset, current_field, current_type,
                    locked_fields, scroll_offset, message, command_mode, command_buffer,
                    current_preset, count_buffer, frequency_mode, byte_frequencies,
                    pending_g, pending_y, pending_yo, pending_open_bracket,
                    pending_close_bracket, wrap_mode, horizontal_scroll, show_locks,
                    show_gutter, fs, settings_file, overflow_checks >>

\* event::read gave an event that is no key
Event_other ==
    /\ pc = "read"
    /\ pc' = "draw"
    /\ UNCHANGED << records, current_record, field_offset, current_field, current_type,
                    locked_fields, scroll_offset, visible_records, message, command_mode,
                    command_buffer, current_preset, count_buffer, frequency_mode,
                    byte_frequencies, pending_g, pending_y, pending_yo,
                    pending_open_bracket, pending_close_bracket, wrap_mode,
                    horizontal_scroll, terminal_width, show_locks, show_gutter, fs,
                    settings_file, overflow_checks >>

\* terminal.draw(..)? on an Err: run_interactive returns it from inside the loop
Draw_fails ==
    /\ pc = "draw"
    /\ pc' = "failed"
    /\ UNCHANGED << records, current_record, field_offset, current_field, current_type,
                    locked_fields, scroll_offset, visible_records, message, command_mode,
                    command_buffer, current_preset, count_buffer, frequency_mode,
                    byte_frequencies, pending_g, pending_y, pending_yo,
                    pending_open_bracket, pending_close_bracket, wrap_mode,
                    horizontal_scroll, terminal_width, show_locks, show_gutter, fs,
                    settings_file, overflow_checks >>

\* event::read()? on an Err: run_interactive returns it from inside the loop
Read_fails ==
    /\ pc = "read"
    /\ pc' = "failed"
    /\ UNCHANGED << records, current_record, field_offset, current_field, current_type,
                    locked_fields, scroll_offset, visible_records, message, command_mode,
                    command_buffer, current_preset, count_buffer, frequency_mode,
                    byte_frequencies, pending_g, pending_y, pending_yo,
                    pending_open_bracket, pending_close_bracket, wrap_mode,
                    horizontal_scroll, terminal_width, show_locks, show_gutter, fs,
                    settings_file, overflow_checks >>

\* after the break: disable_raw_mode()?, execute!(.., LeaveAlternateScreen)?, Ok(())
Restore ==
    /\ pc = "exited"
    /\ pc' = "returned"
    /\ UNCHANGED << records, current_record, field_offset, current_field, current_type,
                    locked_fields, scroll_offset, visible_records, message, command_mode,
                    command_buffer, current_preset, count_buffer, frequency_mode,
                    byte_frequencies, pending_g, pending_y, pending_yo,
                    pending_open_bracket, pending_close_bracket, wrap_mode,
                    horizontal_scroll, terminal_width, show_locks, show_gutter, fs,
                    settings_file, overflow_checks >>

(***************************************************************************)
(* Specifications.  Each draws the keys, the typed command lines and the   *)
(* terminal sizes from the sets named in it.                               *)
(***************************************************************************)
IsPrefix(s, t) == Len(s) <= Len(t) /\ SubSeq(t, 1, Len(s)) = s

\* a character that continues the command buffer towards one of the lines
TypeTowards(lines) ==
    \E line \in lines :
        /\ Len(command_buffer) < Len(line)
        /\ IsPrefix(command_buffer, line)
        /\ Cmd_Char(line[Len(command_buffer) + 1])

\* the registry under the cursor keys, L, U and :clear, with no preset load
LockLines == { V_clear }
LockDigits == { "1", "3" }

InitLock == Init /\ records = MixedRecords /\ fs = NoFiles

NextLock ==
    \/ Start
    \/ Draw(20, 3)
    \/ \E c \in LockDigits : Key_digit(c)
    \/ Key_h
    \/ Key_l
    \/ Key_w
    \/ Key_b
    \/ Key_j
    \/ Key_k
    \/ Key_L
    \/ Key_U
    \/ Key_colon
    \/ TypeTowards(LockLines)
    \/ Cmd_Enter("ok")

SpecLock == InitLock /\ [][NextLock]_vars

(***************************************************************************)
(* The locked-field registry under L, U and :clear                         *)
(***************************************************************************)
\* the end of a field and of the candidate as the integers they stand for
field_end(f) == f.byte_offset + f.byte_length
candidate_len == type_size * get_count
candidate_end == current_field_byte + candidate_len

\* two half-open intervals share a byte
Intersects(a_start, a_end, b_start, b_end) == Max(a_start, b_start) < Min(a_end, b_end)

\* the half-open overlap test of the specification, on the integers
OverlapTest(new_start, new_end, other_start, other_end) ==
    ~(new_end <= other_start \/ new_start >= other_end)

\* C1: the locked fields, read as half-open byte intervals
\* [byte_offset, byte_offset + byte_length), are pairwise non-overlapping.
C1_NonOverlapping ==
    \A i, j \in DOMAIN locked_fields :
        i < j =>
            ~Intersects(locked_fields[i].byte_offset, field_end(locked_fields[i]),
                        locked_fields[j].byte_offset, field_end(locked_fields[j]))

\* C2: when L is pressed and the candidate interval
\* [cursor byte, cursor byte + width x count) intersects an existing locked
\* field under the half-open overlap test, the lock is rejected:
\* locked_fields is unchanged and the message is the overlap message.
C2_OverlapRejected ==
    [][(/\ Key_L
        /\ \E i \in DOMAIN locked_fields :
              OverlapTest(current_field_byte, candidate_end,
                          locked_fields[i].byte_offset, field_end(locked_fields[i])))
       => (/\ locked_fields' = locked_fields
           /\ message' = Some(<< "Cannot lock: overlaps with existing field" >>))]_vars

\* C4: from an empty registry, a successful lock followed by an unlock with
\* the cursor on a byte inside the locked interval leaves the registry empty:
\* whenever the registry holds the one field just locked and the cursor byte
\* lies in its interval, unlock_at_cursor removes it.
C4_LockUnlockRoundTrip ==
    (/\ Len(locked_fields) = 1
     /\ locked_fields[1].byte_offset <= current_field_byte
     /\ current_field_byte < field_end(locked_fields[1]))
    => unlock_result(locked_fields, current_field_byte) = << >>

\* C5: when L is pressed and cursor byte + width x count exceeds the length
\* of the current record, the lock is rejected: locked_fields is unchanged and
\* the message reports the bytes needed and the bytes available.  The
\* candidate is one that meets no locked field, so that the length check is
\* the one that decides.
C5_ShortRejected ==
    [][(/\ Key_L
        /\ candidate_end > current_record_len
        /\ \A i \in DOMAIN locked_fields :
              ~OverlapTest(current_field_byte, candidate_end,
                           locked_fields[i].byte_offset, field_end(locked_fields[i])))
       => (/\ locked_fields' = locked_fields
           /\ message' = Some(<< "Cannot lock: bytes needed, only available",
                                 candidate_len,
                                 saturating_sub(current_record_len, current_field_byte) >>))]_vars

(***************************************************************************)
(* The registry under L and U with every type: Tab cycles current_type     *)
(***************************************************************************)
InitLockTyped == Init /\ records = ScenarioRecords /\ fs = NoFiles

NextLockTyped ==
    \/ Start
    \/ Draw(20, 3)
    \/ Key_h
    \/ Key_l
    \/ Key_w
    \/ Key_b
    \/ Key_Tab
    \/ Key_L
    \/ Key_U

SpecLockTyped == InitLockTyped /\ [][NextLockTyped]_vars

\* most fields a candidate is made of
MaxCandidateCount == 2

\* a field as the data model has it: a positive length, an end within the word
WellFormed(f) == f.byte_length > 0 /\ field_end(f) <= UsizeMax

\* the registry holds well-formed fields, none of which meets [start, end)
Clear(fields, start, end) ==
    \A i \in DOMAIN fields :
        /\ WellFormed(fields[i])
        /\ ~Intersects(start, end, fields[i].byte_offset, field_end(fields[i]))

\* C3: two candidate intervals that do not overlap (they may touch) and
\* both fit in the current record are both locked, whichever is attempted
\* first, and the registry is the same in both orders.  The first candidate
\* starts at the cursor with the current type, the second is any other; the
\* registry they are added to holds well-formed fields that meet neither.
C3_BothOrders ==
    LET len == current_record_len
        a_off == current_field_byte
    IN  \A a_count \in 1 .. MaxCandidateCount :
            LET a_len == type_size * a_count
            IN  (a_off + a_len <= len /\ Clear(locked_fields, a_off, a_off + a_len))
                => \A b_count \in 1 .. MaxCandidateCount, b_off \in 0 .. len,
                      b_type \in DataType :
                       LET b_size == unwrap_or(byte_size(b_type), 1)
                           b_len == b_size * b_count
                       IN  (/\ b_off + b_len <= len
                            /\ ~Intersects(a_off, a_off + a_len, b_off, b_off + b_len)
                            /\ Clear(locked_fields, b_off, b_off + b_len))
                           => LET first_a == lock_result(locked_fields, a_off, current_type,
                                                         a_count, len)
                                  first_b == lock_result(locked_fields, b_off, b_type,
                                                         b_count, len)
                                  then_b == lock_result(first_a.fields, b_off, b_type,
                                                        b_count, len)
                                  then_a == lock_result(first_b.fields, a_off, current_type,
                                                        a_count, len)
                              IN  /\ first_a.outcome = "locked"
                                  /\ then_b.outcome = "locked"
                                  /\ first_b.outcome = "locked"
                                  /\ then_a.outcome = "locked"
                                  /\ then_b.fields = then_a.fields
                                  /\ Len(then_b.fields) = Len(locked_fields) + 2
                                  /\ ~lock_panics(locked_fields, a_off, type_size, a_count, len)
                                  /\ ~lock_panics(first_a.fields, b_off, b_size, b_count, len)
                                  /\ ~lock_panics(locked_fields, b_off, b_size, b_count, len)
                                  /\ ~lock_panics(first_b.fields, a_off, type_size, a_count, len)

\* two touching fields of different widths, each locked by L
C3_Witness ==
    /\ Len(locked_fields) = 2
    /\ field_end(locked_fields[1]) = locked_fields[2].byte_offset
    /\ locked_fields[1].byte_length # locked_fields[2].byte_length
    /\ message = Some(<< "Locked T at byte", name(current_type), current_field_byte >>)

(***************************************************************************)
(* Presets: :w, :p, :clear and the startup load, over the preset files     *)
(***************************************************************************)
L_p_a == << "p", " ", "a" >>
L_p_b == << "p", " ", "b" >>
L_p_c == << "p", " ", "c" >>
L_w_c == << "w", " ", "c" >>
PresetLines == { L_p_a, L_p_b, L_p_c, L_w_c, V_clear }
PresetIo == { "ok", "write_fails" }

InitPreset == Init /\ records = ScenarioRecords

NextPreset ==
    \/ Start
    \/ \E preset_name \in { NameA, NameB }, read_ok \in BOOLEAN :
          /\ exists(fs, resolve_preset_path(fs, preset_name))
          /\ StartAutoLoad(preset_name, read_ok)
    \/ Draw(20, 3)
    \/ Key_h
    \/ Key_l
    \/ Key_L
    \/ Key_U
    \/ Key_colon
    \/ TypeTowards(PresetLines)
    \/ \E io \in PresetIo : Cmd_Enter(io)

SpecPreset == InitPreset /\ [][NextPreset]_vars

\* the fields are in ascending order of byte_offset
SortedByOffset(fields) ==
    \A i, j \in DOMAIN fields : i < j => fields[i].byte_offset <= fields[j].byte_offset

\* C6: in every reachable state (after any lock, unlock, clear or successful
\* preset load) locked_fields is ordered by byte_offset ascending.
C6_Sorted == SortedByOffset(locked_fields)

\* the preset whose lines are out of order was loaded by :p
C6_Witness ==
    /\ locked_fields = << LockedField(0, 1, "U8"), LockedField(2, 2, "U16Le") >>
    /\ current_preset = Some(NameA)
    /\ message = Some(<< "Loaded preset (fields)", NameA, 2 >>)

\* the command line holds :p or :preset, and the name it will load
PresetCommand ==
    /\ CommandMode
    /\ trim(command_buffer) # << >>
    /\ splitn2(trim(command_buffer))[1] \in { V_p, V_preset }
PresetCommandName ==
    LET parts == splitn2(trim(command_buffer))
    IN  IF Len(parts) >= 2 THEN Some(parts[2]) ELSE current_preset

\* :p <name> is executed and the load fails
FailedPresetCommand ==
    \E io \in PresetIo :
        /\ PresetCommand
        /\ PresetCommandName # None
        /\ ~load_preset_result(fs, PresetCommandName[1], io = "ok").ok
        /\ Cmd_Enter(io)

\* the startup load of a detected preset fails
FailedAutoLoad(preset_name) ==
    \E read_ok \in BOOLEAN :
        /\ ~load_preset_result(fs, preset_name, read_ok).ok
        /\ StartAutoLoad(preset_name, read_ok)

\* C7 as stated: when a preset load fails (file unreadable, or a line with a
\* non-integer offset or length or an unknown type name), locked_fields and
\* current_preset keep their prior values and a status message is set.
C7_FailedLoadKeepsAll ==
    [][(FailedPresetCommand \/ \E n \in { NameA, NameB } : FailedAutoLoad(n))
       => (/\ locked_fields' = locked_fields
           /\ current_preset' = current_preset
           /\ message' # None)]_vars

\* C7, amended: a failed :p keeps locked_fields and current_preset and sets
\* the message to the error; a failed startup load keeps locked_fields and sets
\* the message, and current_preset becomes the detected name.
C7_FailedLoad ==
    [][/\ FailedPresetCommand
          => (/\ locked_fields' = locked_fields
              /\ current_preset' = current_preset
              /\ message' = Some(load_preset_result(fs, PresetCommandName[1], FALSE).err)
                 \/ message' = Some(load_preset_result(fs, PresetCommandName[1], TRUE).err))
       /\ \A n \in { NameA, NameB } :
            FailedAutoLoad(n)
               => (/\ locked_fields' = locked_fields
                   /\ current_preset' = Some(n)
                   /\ message' # None)]_vars

\* a :p that failed on a bad length, with a preset loaded and fields locked
C7_Witness ==
    /\ message = Some(<< "Invalid length" >>)
    /\ locked_fields # << >>
    /\ current_preset = Some(NameA)
    /\ pc = "draw"

\* a line that is no field line: a comment, or fewer than three tokens
IsComment(line) == trim_start(line) # << >> /\ Head(trim_start(line)) = "#"
NotFieldLine(line) == IsComment(line) \/ Len(split_whitespace(line)) < 3

\* a line '<byte_offset> <byte_length> <type_name>'
IsFieldLine(line) ==
    LET parts == split_whitespace(line)
    IN  /\ Len(parts) = 3
        /\ parse_usize(parts[1]) # None
        /\ parse_usize(parts[2]) # None
        /\ from_name(parts[3]) # None

\* the field lines of a file, in order, as fields
RECURSIVE FieldLines(_)
FieldLines(lines) ==
    IF lines = << >> THEN << >>
    ELSE IF IsFieldLine(Head(lines)) /\ ~NotFieldLine(Head(lines))
         THEN << load_preset_line(Head(lines)).field >> \o FieldLines(Tail(lines))
         ELSE FieldLines(Tail(lines))

PresetNames == { NameA, NameB, NameC }

\* C8: loading a preset ignores every line that is not of the shape
\* '<byte_offset> <byte_length> <type_name>', a leading comment line included:
\* a file made of field lines and of comment or short lines loads without
\* error and gives exactly the fields of its field lines.
C8_OtherLinesIgnored ==
    \A n \in PresetNames :
        LET path == resolve_preset_path(fs, n)
        IN  (/\ exists(fs, path)
             /\ \A i \in DOMAIN fs[path] :
                    IsFieldLine(fs[path][i]) \/ NotFieldLine(fs[path][i]))
            => LET r == load_preset_result(fs, n, TRUE)
               IN  r.ok /\ r.fields = FieldLines(fs[path])

\* C9: saving the current locked fields under a name (:w name) and then
\* loading that name (:p name) succeeds and yields a registry equal to the
\* one saved: whenever the file :w wrote for a name holds the current
\* registry, loading the name gives back that registry.
C9_SaveLoadRoundTrip ==
    \A n \in PresetNames :
        (/\ exists(fs, << "config", n >>)
         /\ fs[<< "config", n >>] = save_preset_content(locked_fields))
        => LET r == load_preset_result(fs, n, TRUE)
           IN  r.ok /\ sort_by_offset(r.fields) = locked_fields

(***************************************************************************)
(* Every key of normal mode, on a single one-byte record                   *)
(***************************************************************************)
KeysDigits == { "2" }

InitKeys == Init /\ records = OneByteRecords /\ fs = NoFiles

NextKeys ==
    \/ Start
    \/ Draw(20, 3)
    \/ Key_colon
    \/ Cmd_Esc
    \/ Key_Tab
    \/ Key_BackTab
    \/ Key_h
    \/ Key_b
    \/ \E c \in KeysDigits : Key_digit(c)
    \/ Key_0
    \/ Key_dollar
    \/ Key_j
    \/ Key_k
    \/ Key_ctrl_d
    \/ Key_ctrl_u
    \/ Key_L
    \/ Key_U
    \/ Key_G
    \/ Key_y
    \/ Key_o
    \/ Key_open_bracket
    \/ Key_close_bracket
    \/ Key_f
    \/ Key_w
    \/ Key_l
    \/ Key_g
    \/ Key_other

SpecKeys == InitKeys /\ [][NextKeys]_vars

\* the pending-prefix flags that are set
PendingSet ==
    { i \in 1 .. 5 :
        << pending_g, pending_y, pending_yo, pending_open_bracket,
           pending_close_bracket >>[i] }

\* C10: in every reachable state at most one of the five pending-prefix
\* flags (g, y, yo, open-bracket, close-bracket) is set.
C10_OnePending == Cardinality(PendingSet) <= 1

\* 'y' then 'o': the yo prefix is the one pending, with a count typed before
C10_Witness == pending_yo /\ ~pending_y /\ count_buffer # << >> /\ pc = "read"

(***************************************************************************)
(* Pending prefixes and the keys that follow them                          *)
(***************************************************************************)
\* handle_key runs one of its arms
NormalKey ==
    \/ Key_colon \/ Key_Tab \/ Key_BackTab \/ Key_h \/ Key_b
    \/ \E i \in 2 .. Len(DigitChars) : Key_digit(DigitChars[i])
    \/ Key_0 \/ Key_dollar \/ Key_j \/ Key_k \/ Key_ctrl_d \/ Key_ctrl_u
    \/ Key_L \/ Key_U \/ Key_G \/ Key_y \/ Key_o \/ Key_open_bracket
    \/ Key_close_bracket \/ Key_f \/ Key_w \/ Key_l \/ Key_g \/ Key_other

\* the positions of PendingSet
P_g == 1
P_y == 2
P_yo == 3
P_open == 4
P_close == 5

\* C11: after a prefix key sets a pending prefix, the very next key clears
\* it whether or not that key completes a command.  A key pressed while a
\* prefix is pending leaves nothing pending but the prefix that key itself
\* sets (y, '[', ']', a first g, o after y).
C11_NextKeyClears ==
    [][(PendingSet # { } /\ NormalKey /\ pc' # "panicked")
       => \/ PendingSet' = { }
          \/ Key_y /\ PendingSet' = { P_y }
          \/ Key_open_bracket /\ PendingSet' = { P_open }
          \/ Key_close_bracket /\ PendingSet' = { P_close }
          \/ Key_g /\ ~pending_g /\ PendingSet' = { P_g }
          \/ Key_o /\ pending_y /\ PendingSet' = { P_yo }]_vars

\* C12: with pending = yo, a key that is not f, w, l or g cancels the chain
\* without side effect: pending becomes none and the four mode flags, the
\* record cursor, the field offset, the field index, the current type and the
\* locked fields are all unchanged.
C12_CancelNoSideEffect ==
    [][(/\ pending_yo
        /\ NormalKey
        /\ ~(Key_f \/ Key_w \/ Key_l \/ Key_g)
        /\ pc' # "panicked")
       => (/\ PendingSet' = { }
           /\ UNCHANGED << frequency_mode, wrap_mode, show_locks, show_gutter,
                           current_record, field_offset, current_field,
                           current_type, locked_fields >>)]_vars

(***************************************************************************)
(* The four modes under the prefixes yo, '[' and ']'                       *)
(***************************************************************************)
InitModes == Init /\ records = OneByteRecords /\ fs = NoFiles

NextModes ==
    \/ Start
    \/ Draw(20, 3)
    \/ Key_y
    \/ Key_o
    \/ Key_open_bracket
    \/ Key_close_bracket
    \/ Key_f
    \/ Key_w
    \/ Key_l
    \/ Key_g
    \/ Key_h
    \/ Key_j
    \/ \E c \in KeysDigits : Key_digit(c)

SpecModes == InitModes /\ [][NextModes]_vars

\* the message a toggle or force command leaves for the value the flag now has
ModeMessage(flag_now, on_msg, off_msg) ==
    Some(<< IF flag_now THEN on_msg ELSE off_msg >>)

\* C13: with pending = yo, the letter f, w, l or g inverts the frequency,
\* wrap, show-locks or show-gutter flag respectively, sets the ON or OFF
\* message matching the new value and clears pending; y and o themselves leave
\* the flags alone, so the same yo-letter sequence issued twice restores the
\* flag.
C13_ToggleInverts ==
    [][/\ (PendingSet = { P_yo } /\ Key_f)
          => (/\ frequency_mode' = ~frequency_mode
              /\ message' = ModeMessage(frequency_mode', "Frequency mode ON", "Frequency mode OFF")
              /\ PendingSet' = { }
              /\ UNCHANGED << wrap_mode, show_locks, show_gutter >>)
       /\ (PendingSet = { P_yo } /\ Key_w)
          => (/\ wrap_mode' = ~wrap_mode
              /\ message' = ModeMessage(wrap_mode', "Wrap ON", "Wrap OFF")
              /\ PendingSet' = { }
              /\ UNCHANGED << frequency_mode, show_locks, show_gutter >>)
       /\ (PendingSet = { P_yo } /\ Key_l)
          => (/\ show_locks' = ~show_locks
              /\ message' = ModeMessage(show_locks', "Locks ON", "Locks OFF")
              /\ PendingSet' = { }
              /\ UNCHANGED << frequency_mode, wrap_mode, show_gutter >>)
       /\ (PendingSet = { P_yo } /\ Key_g)
          => (/\ show_gutter' = ~show_gutter
              /\ message' = ModeMessage(show_gutter', "Gutter ON", "Gutter OFF")
              /\ PendingSet' = { }
              /\ UNCHANGED << frequency_mode, wrap_mode, show_locks >>)
       /\ (Key_y \/ Key_o)
          => UNCHANGED << frequency_mode, wrap_mode, show_locks, show_gutter >>]_vars

\* yo l, then yo w twice: locks are hidden, wrap is back off
C13_Witness ==
    /\ ~show_locks
    /\ ~wrap_mode
    /\ message = Some(<< "Wrap OFF" >>)
    /\ PendingSet = { }
    /\ count_buffer = << >>

\* C14: after '[' followed by f, w, l or g the corresponding mode flag is
\* true, and after ']' followed by the letter it is false, whatever its prior
\* value; '[' and ']' themselves leave the flags alone, so repeating the same
\* force command changes the flag no further.
C14_ForceSets ==
    [][/\ (PendingSet \in { { P_open }, { P_close } } /\ Key_f)
          => (/\ frequency_mode' = pending_open_bracket
              /\ message' = ModeMessage(pending_open_bracket, "Frequency mode ON", "Frequency mode OFF"))
       /\ (PendingSet \in { { P_open }, { P_close } } /\ Key_w)
          => (/\ wrap_mode' = pending_open_bracket
              /\ message' = ModeMessage(pending_open_bracket, "Wrap ON", "Wrap OFF"))
       /\ (PendingSet \in { { P_open }, { P_close } } /\ Key_l)
          => (/\ show_locks' = pending_open_bracket
              /\ message' = ModeMessage(pending_open_bracket, "Locks ON", "Locks OFF"))
       /\ (PendingSet \in { { P_open }, { P_close } } /\ Key_g)
          => (/\ show_gutter' = pending_open_bracket
              /\ message' = ModeMessage(pending_open_bracket, "Gutter ON", "Gutter OFF"))
       /\ (Key_open_bracket \/ Key_close_bracket)
          => UNCHANGED << frequency_mode, wrap_mode, show_locks, show_gutter >>]_vars

\* ] g and [ f: the gutter forced off, frequency mode forced on
C14_Witness ==
    /\ ~show_gutter
    /\ frequency_mode
    /\ show_locks
    /\ message = Some(<< "Frequency mode ON" >>)
    /\ byte_frequencies = compute_frequencies(records)

(***************************************************************************)
(* The count buffer                                                        *)
(***************************************************************************)
\* a digit key that appends to the count buffer: 1-9, or 0 after a digit
AppendingDigit ==
    \/ \E i \in 2 .. Len(DigitChars) : Key_digit(DigitChars[i])
    \/ Key_0 /\ count_buffer # << >>

\* C15: every digit key that appends to CountBuffer (1-9 always, 0 only
\* when CountBuffer is non-empty) also clears any pending prefix.
C15_DigitClearsPending ==
    [][AppendingDigit => PendingSet' = { }]_vars

\* C16: CountBuffer is cleared by any key that is neither a digit nor a
\* count-aware action consuming it; j, k and L consume it, so the count buffer
\* is empty after every key that is no digit.
C16_CountCleared ==
    [][(NormalKey /\ ~AppendingDigit /\ pc' # "panicked") => count_buffer' = << >>]_vars

(***************************************************************************)
(* The record cursor: counts, moves, file opens and terminal heights       *)
(***************************************************************************)
L_e_d == << "e", " ", "d" >>
L_e_z == << "e", " ", "z" >>
MoveLines == { L_e_d, L_e_z }
MoveDigits == { "1", "3" }
MoveHeights == { 2, 4 }

InitMove == Init /\ records = MoveRecords /\ fs = NoFiles

NextMove ==
    \/ Start
    \/ \E height \in MoveHeights : Draw(20, height)
    \/ \E c \in MoveDigits : Key_digit(c)
    \/ Key_0
    \/ Key_j
    \/ Key_k
    \/ Key_ctrl_d
    \/ Key_ctrl_u
    \/ Key_g
    \/ Key_G
    \/ Key_L
    \/ Key_colon
    \/ TypeTowards(MoveLines)
    \/ Cmd_Enter("ok")

SpecMove == InitMove /\ [][NextMove]_vars

\* the number a string of digits reads as, on the integers
RECURSIVE DecimalValue(_)
DecimalValue(s) ==
    IF s = << >> THEN 0
    ELSE 10 * DecimalValue(SubSeq(s, 1, Len(s) - 1)) + DigitValue(s[Len(s)])

\* the count the claim gives: 1 for the empty buffer, the decimal value when
\* it fits the machine word, 1 when the parse fails
ExpectedCount ==
    IF count_buffer = << >> THEN 1
    ELSE IF DecimalValue(count_buffer) <= UsizeMax THEN DecimalValue(count_buffer)
    ELSE 1

\* C17: the repeat count used by j, k, Down, Up and L is 1 when CountBuffer
\* is empty, the decimal value of CountBuffer when it parses, and 1 when
\* parsing fails; it is never 0, and CountBuffer is empty after the action.
\* k moves up by that count, j down by it, L asks for that many fields.
C17_RepeatCount ==
    [][((Key_j \/ Key_k \/ Key_L) /\ pc' # "panicked")
       => (/\ get_count = ExpectedCount
           /\ get_count >= 1
           /\ count_buffer' = << >>
           /\ Key_k => current_record' = Max(current_record - ExpectedCount, 0)
           /\ (Key_j /\ current_record + ExpectedCount <= UsizeMax)
              => current_record' = Min(current_record + ExpectedCount,
                                       Max(Len(records) - 1, 0))
           /\ (Key_L /\ locked_fields = << >> /\ type_size * ExpectedCount <= UsizeMax)
              => \/ /\ type_size * ExpectedCount <= current_record_len
                    /\ locked_fields' = << LockedField(0, type_size * ExpectedCount,
                                                       current_type) >>
                 \/ /\ type_size * ExpectedCount > current_record_len
                    /\ message' = Some(<< "Cannot lock: bytes needed, only available",
                                          type_size * ExpectedCount, current_record_len >>))]_vars

\* "10" was typed and L asked for ten bytes of a one-byte record
C17_Witness ==
    /\ message = Some(<< "Cannot lock: bytes needed, only available", 10, 1 >>)
    /\ count_buffer = << >>
    /\ locked_fields = << >>

\* C18 as stated: after any sequence of record-cursor moves and file opens,
\* current_record is in [0, record_count).
C18_CursorInRange == current_record >= 0 /\ current_record < Len(records)

\* C18, amended: current_record is in [0, record_count) whenever there are
\* records, and is 0 when there are none (an empty file was opened, or the
\* program was started on one).
C18_CursorInRangeOrZero ==
    /\ records # << >> => (current_record >= 0 /\ current_record < Len(records))
    /\ records = << >> => current_record = 0

\* moved down the six records, opened the three-record file, jumped to its end
C18_Witness ==
    /\ Len(records) = 3
    /\ current_record = 2
    /\ message = Some(<< "Jumped to last record" >>)

\* a key that moves the record cursor
RecordMove ==
    \/ Key_j \/ Key_k \/ Key_ctrl_d \/ Key_ctrl_u \/ Key_G
    \/ Key_g /\ pending_g /\ ~toggle_matched

\* C19: after any record-cursor move,
\* scroll_offset <= current_record < scroll_offset + visible_records, where
\* visible_records is the height last stored by the renderer.
C19_CursorVisible ==
    [][(RecordMove /\ pc' # "panicked")
       => (/\ scroll_offset' <= current_record'
           /\ current_record' < scroll_offset' + visible_records')]_vars

\* C20: in every reachable state field_offset is in [0, width(current_type))
\* (width 1 for varint).
C20_OffsetInWidth == field_offset >= 0 /\ field_offset < type_size

(***************************************************************************)
(* The cursor byte against the current record                              *)
(***************************************************************************)
\* C21: whenever the cursor byte offset is computed (for L, U and the
\* status bar), the field index used is clamped into
\* [0, field_count(current record)): the cursor byte lies inside the current
\* record whenever that record has at least one field.
C21_CursorByteInRecord ==
    max_fields >= 1 => current_field_byte < current_record_len

(***************************************************************************)
(* The scenario of three 4-byte records                                    *)
(***************************************************************************)
InitScenario == Init /\ records = ScenarioRecords /\ fs = NoFiles

NextScenario ==
    \/ Start
    \/ Draw(20, 3)
    \/ \E c \in KeysDigits : Key_digit(c)
    \/ Key_l
    \/ Key_h
    \/ Key_w
    \/ Key_b
    \/ Key_L
    \/ Key_U

SpecScenario == InitScenario /\ [][NextScenario]_vars

ScenarioFirst == LockedField(0, 1, "U8")
ScenarioSecond == LockedField(2, 1, "U8")
OverlapMessage == Some(<< "Cannot lock: overlaps with existing field" >>)

\* the first record, type u8, the cursor on the byte, the count typed
ScenarioAt(byte, count) ==
    /\ current_record = 0
    /\ current_type = "U8"
    /\ current_field_byte = byte
    /\ count_buffer = count

\* C22 as stated: L at byte 0 locks {0, 1, u8}; then 2, l bring the cursor
\* to offset 2, where L locks a second field; a later L at offset 0 is
\* rejected with the overlap message.
C22_Scenario ==
    [][/\ (ScenarioAt(0, << >>) /\ locked_fields = << >> /\ Key_L)
          => locked_fields' = << ScenarioFirst >>
       /\ (ScenarioAt(0, << "2" >>) /\ locked_fields = << ScenarioFirst >> /\ Key_l)
          => current_field_byte' = 2
       /\ (ScenarioAt(2, << >>) /\ locked_fields = << ScenarioFirst >> /\ Key_L)
          => locked_fields' = << ScenarioFirst, ScenarioSecond >>
       /\ (ScenarioAt(0, << >>) /\ locked_fields = << ScenarioFirst, ScenarioSecond >>
             /\ Key_L)
          => (locked_fields' = locked_fields /\ message' = OverlapMessage)]_vars

\* C22, amended: L at byte 0 locks {0, 1, u8}; l does not move the cursor
\* of a u8 (width 1), so the L after 2, l is attempted at offset 0 and is
\* rejected with the overlap message; w, w bring the cursor to offset 2, where
\* L locks a second field; a later L at offset 0 is rejected with the overlap
\* message.
C22_ScenarioWithW ==
    [][/\ (ScenarioAt(0, << >>) /\ locked_fields = << >> /\ Key_L)
          => locked_fields' = << ScenarioFirst >>
       /\ (ScenarioAt(0, << "2" >>) /\ locked_fields = << ScenarioFirst >> /\ Key_l)
          => current_field_byte' = 0
       /\ (\E count \in { << >>, << "2" >> } : ScenarioAt(0, count)
             /\ locked_fields = << ScenarioFirst >> /\ Key_L)
          => (locked_fields' = locked_fields /\ message' = OverlapMessage)
       /\ (\E byte \in { 0, 1 } : ScenarioAt(byte, << >>)
             /\ locked_fields = << ScenarioFirst >> /\ Key_w)
          => current_field_byte' = current_field_byte + 1
       /\ (ScenarioAt(2, << >>) /\ locked_fields = << ScenarioFirst >> /\ Key_L)
          => locked_fields' = << ScenarioFirst, ScenarioSecond >>
       /\ (ScenarioAt(0, << >>) /\ locked_fields = << ScenarioFirst, ScenarioSecond >>
             /\ Key_L)
          => (locked_fields' = locked_fields /\ message' = OverlapMessage)]_vars

\* both fields are locked and the L at offset 0 was rejected
C22_Witness ==
    /\ locked_fields = << ScenarioFirst, ScenarioSecond >>
    /\ current_record = 0
    /\ current_field_byte = 0
    /\ message = OverlapMessage

(***************************************************************************)
(* Frequency mode and the command line over a ten-record set               *)
(***************************************************************************)
L_e_t == << "e", " ", "t" >>
L_e_x == << "e", " ", "x" >>
L_x_d == << "x", " ", "d" >>
OpenLines == { L_e_d, L_e_t, L_e_x, L_x_d }
OpenIo == { "ok", "write_fails" }

InitOpen == Init /\ records = TenRecords /\ fs = NoFiles

NextOpen ==
    \/ Start
    \/ Draw(20, 3)
    \/ Key_open_bracket
    \/ Key_close_bracket
    \/ Key_f
    \/ Key_j
    \/ Key_w
    \/ Key_L
    \/ Key_colon
    \/ TypeTowards(OpenLines)
    \/ \E io \in OpenIo : Cmd_Enter(io)
    \/ Cmd_Esc
    \/ Event_other
    \/ Draw_fails
    \/ Read_fails

SpecOpen == InitOpen /\ [][NextOpen]_vars

\* C23: whenever frequency mode is on, byte_frequencies is the per-position
\* histogram of the loaded record set, also after an open command replaced
\* the record set.
C23_FrequenciesCurrent ==
    frequency_mode => byte_frequencies = compute_frequencies(records)


(***************************************************************************)
(* The colours of frequency mode                                           *)
(***************************************************************************)
\* the byte positions of the current record
RecordPositions == 0 .. (current_record_len - 1)

\* the tiers by name: tier-5 red, tier-4 yellow, tier-3 green, tier-2 cyan,
\* tier-1 blue, and dark gray the neutral one; the tier of a percentage with
\* no upper end on tier-5
tier_of_percent(pct) ==
    IF pct >= 80 THEN "Red"
    ELSE IF pct >= 60 THEN "Yellow"
    ELSE IF pct >= 40 THEN "Green"
    ELSE IF pct >= 20 THEN "Cyan"
    ELSE "Blue"

\* C24: the colour of (position, byte) is the tier of
\* pct = floor(100 x count / record_count): tier-5 from 80 up, tier-4 for
\* 60..79, tier-3 for 40..59, tier-2 for 20..39, tier-1 below 20; and it is the
\* neutral tier when the position is outside the table or there are no records.
C24_TierOfPercent ==
    \A pos \in RecordPositions :
        frequency_styled(pos) =>
            get_frequency_color(pos, byte_val(pos)) =
                IF pos >= Len(byte_frequencies) \/ Len(records) = 0 THEN "DarkGray"
                ELSE tier_of_percent(
                        (frequency_at(byte_frequencies, pos, byte_val(pos)) * 100)
                            \div Len(records))

\* the count of the most frequent value at a position of the table
top_count(pos) ==
    LET counts == { byte_frequencies[pos + 1][b] : b \in DOMAIN byte_frequencies[pos + 1] }
    IN  CHOOSE m \in counts : \A n \in counts : n <= m

\* a field of a ten-record set coloured by frequency whose byte is in n of 10
Styled_of_ten(pos, n) ==
    /\ Len(records) = 10
    /\ frequency_styled(pos)
    /\ pos < Len(byte_frequencies)
    /\ frequency_at(byte_frequencies, pos, byte_val(pos)) = n

\* C25 as stated: in a ten-record set with frequency mode on, a byte found in
\* 9 of 10 records at its position is coloured tier-5 (red), and the most
\* frequent value of a position, found in 3 of 10, is coloured tier-1 (blue).
C25_NineRedThreeBlue ==
    \A pos \in RecordPositions :
        /\ Styled_of_ten(pos, 9) => get_frequency_color(pos, byte_val(pos)) = "Red"
        /\ (Styled_of_ten(pos, 3) /\ top_count(pos) = 3)
              => get_frequency_color(pos, byte_val(pos)) = "Blue"

\* C25, amended: in a ten-record set with frequency mode on, a byte found in
\* 9 of 10 records at its position is coloured tier-5 (red), and the most
\* frequent value of a position, found in 3 of 10, is coloured tier-2 (cyan):
\* 30 percent lies in 20..39.
C25_NineRedThreeCyan ==
    \A pos \in RecordPositions :
        /\ Styled_of_ten(pos, 9) => get_frequency_color(pos, byte_val(pos)) = "Red"
        /\ (Styled_of_ten(pos, 3) /\ top_count(pos) = 3)
              => get_frequency_color(pos, byte_val(pos)) = "Cyan"

\* the cursor is on the third byte; the first is in 9 of 10, the second in 3 of 10
C25_Witness ==
    /\ Styled_of_ten(0, 9)
    /\ Styled_of_ten(1, 3)
    /\ top_count(1) = 3
    /\ get_frequency_color(1, byte_val(1)) = "Cyan"


(***************************************************************************)
(* :w and the files that exist                                             *)
(***************************************************************************)
\* Enter is pressed on a :w or :write line (not :w!)
WriteCommand ==
    /\ CommandMode
    /\ trim(command_buffer) # << >>
    /\ splitn2(trim(command_buffer))[1] \in { V_w, V_write }
    /\ \E io \in PresetIo : Cmd_Enter(io)

\* the name given on the line, if any
WriteArgument ==
    LET parts == splitn2(trim(command_buffer))
    IN  IF Len(parts) >= 2 THEN Some(parts[2]) ELSE None

\* the name the preset is saved under: the argument, else the current preset
WriteName == IF WriteArgument # None THEN WriteArgument ELSE current_preset

LineVerb == splitn2(trim(command_buffer))[1]
LineArgument ==
    LET parts == splitn2(trim(command_buffer))
    IN  IF Len(parts) >= 2 THEN Some(parts[2]) ELSE None

\* Enter is pressed on an :e, :o, :open or :edit line with a file name
OpenCommand(io) ==
    /\ CommandMode
    /\ trim(command_buffer) # << >>
    /\ LineVerb \in { V_e, V_o, V_open, V_edit }
    /\ LineArgument # None
    /\ Cmd_Enter(io)

\* the file named on the line is there, is read, and holds whole records
OpenSucceeds(io) ==
    /\ io = "ok"
    /\ LineArgument[1] \in DOMAIN DataFiles
    /\ read_length16(DataFiles[LineArgument[1]], << >>).ok

\* C27: a successful :e/:o/:open/:edit replaces the record list, resets
\* current_record, scroll_offset, field_offset and current_field to 0 and
\* leaves locked_fields unchanged; a failed open (missing file, read error,
\* truncated record) leaves records, cursor and locked_fields unchanged and
\* sets a status message.
C27_OpenReplacesOrKeeps ==
    [][\A io \in OpenIo :
         /\ (OpenCommand(io) /\ OpenSucceeds(io))
            => (/\ records' = read_length16(DataFiles[LineArgument[1]], << >>).records
                /\ current_record' = 0
                /\ scroll_offset' = 0
                /\ field_offset' = 0
                /\ current_field' = 0
                /\ locked_fields' = locked_fields)
         /\ (OpenCommand(io) /\ ~OpenSucceeds(io))
            => (/\ records' = records
                /\ current_record' = current_record
                /\ scroll_offset' = scroll_offset
                /\ field_offset' = field_offset
                /\ current_field' = current_field
                /\ locked_fields' = locked_fields
                /\ message' # None)]_vars

\* d was opened with a field locked and the cursor moved before
C27_Witness ==
    /\ message = Some(<< "Opened (records)", << "d" >>, 3 >>)
    /\ records # TenRecords
    /\ locked_fields # << >>
    /\ current_record = 0
    /\ current_field = 0


KnownVerbs ==
    { V_w, V_write, V_w_bang, V_write_bang, V_p, V_preset, V_e, V_o, V_open, V_edit,
      V_clear, V_s, V_save, V_q, V_quit }

\* Enter is pressed on a line whose verb the command line does not know
UnknownCommand ==
    /\ CommandMode
    /\ trim(command_buffer) # << >>
    /\ LineVerb \notin KnownVerbs
    /\ \E io \in OpenIo : Cmd_Enter(io)

\* C28: an unrecognized verb sets an 'Unknown command' status message and
\* changes no records, cursor, mode flags, locked fields or current preset; the
\* engine returns to normal mode and does not quit.
C28_UnknownVerb ==
    [][UnknownCommand
       => (/\ message' = Some(<< "Unknown command:", LineVerb >>)
           /\ command_mode' = FALSE
           /\ pc' = "draw"
           /\ UNCHANGED << records, current_record, scroll_offset, field_offset,
                           current_field, current_type, frequency_mode, wrap_mode,
                           show_locks, show_gutter, locked_fields, current_preset >>)]_vars

\* the line x d was refused with frequency mode on and a field locked
C28_Witness ==
    /\ message = Some(<< "Unknown command:", << "x" >> >>)
    /\ ~command_mode
    /\ pc = "draw"
    /\ frequency_mode
    /\ locked_fields # << >>


(***************************************************************************)
(* U with nothing under the cursor                                         *)
(***************************************************************************)
\* a locked field covers the cursor byte
CursorCovered ==
    \E i \in DOMAIN locked_fields : unlock_covers(locked_fields[i], current_field_byte)

\* C29: U with no locked field covering the cursor byte leaves locked_fields
\* unchanged and reports the rejection by setting a status message; U with
\* fields covering the cursor byte removes exactly those fields.
C29_UnlockReports ==
    [][/\ (Key_U /\ ~CursorCovered /\ pc' # "panicked")
          => (/\ locked_fields' = locked_fields
              /\ message' # None)
       /\ (Key_U /\ CursorCovered /\ pc' # "panicked")
          => locked_fields' = unlock_result(locked_fields, current_field_byte)]_vars


(***************************************************************************)
(* The loop of run_interactive                                             *)
(***************************************************************************)
\* what only handle_key writes
normal_mode_vars ==
    << current_type, count_buffer, frequency_mode, byte_frequencies, pending_g,
       pending_y, pending_yo, pending_open_bracket, pending_close_bracket, wrap_mode,
       horizontal_scroll, show_locks, show_gutter >>

\* what only the command line writes
command_line_vars == << records, current_preset, fs, settings_file >>

\* what a render leaves alone: everything but the size it stores
engine_vars ==
    << records, current_record, field_offset, current_field, current_type,
       locked_fields, scroll_offset, message, command_mode, command_buffer,
       current_preset, count_buffer, frequency_mode, byte_frequencies, pending_g,
       pending_y, pending_yo, pending_open_bracket, pending_close_bracket, wrap_mode,
       horizontal_scroll, show_locks, show_gutter, fs, settings_file >>

\* C30: the loop alternates render and input: a render is followed by one
\* input read, and the event read is handled to its end by one handler, the
\* command line when it is open and normal mode otherwise, before the next
\* render (or the end of the program).
C30_RenderInputAlternate ==
    [][/\ pc = "draw" => (pc' \in { "read", "failed" } /\ UNCHANGED engine_vars)
       /\ pc = "read" => pc' \in { "draw", "exited", "panicked", "failed" }
       /\ (pc = "read" /\ command_mode) => UNCHANGED normal_mode_vars
       /\ (pc = "read" /\ ~command_mode)
             => (/\ UNCHANGED command_line_vars
                 /\ \/ UNCHANGED << command_mode, command_buffer >>
                    \/ command_mode' /\ command_buffer' = << >>)]_vars

\* the command line handled a character and the next step is a render
C30_Witness ==
    /\ pc = "draw"
    /\ command_mode
    /\ command_buffer = << "e", " " >>
    /\ frequency_mode

(***************************************************************************)
(* The ways out of run_interactive                                         *)
(***************************************************************************)
L_q == V_q
ExitLines == { L_q }

InitExit == Init /\ records = MoveRecords /\ fs = NoFiles

NextExit ==
    \/ Start
    \/ Draw(20, 3)
    \/ Draw_fails
    \/ Read_fails
    \/ Event_other
    \/ Key_j
    \/ Key_k
    \/ Key_w
    \/ Key_colon
    \/ TypeTowards(ExitLines)
    \/ Cmd_Enter("ok")
    \/ Cmd_Esc
    \/ Restore

SpecExit == InitExit /\ [][NextExit]_vars

\* run_interactive has returned to its caller
Returned == pc \in { "returned", "failed" }

\* the lines that restore the terminal were reached before the return
RestoreAttempted == pc = "returned"

\* C31: on every exit from run_interactive after raw mode was enabled, by :q
\* or by a fatal terminal error while drawing or reading an event, the
\* restoration of the terminal (disable raw mode, leave the alternate screen)
\* is attempted before the function returns.
C31_RestoredOnExit == Returned => RestoreAttempted

(***************************************************************************)
(* Type cycling                                                            *)
(***************************************************************************)
InitTypes == Init /\ records = ScenarioRecords /\ fs = NoFiles

NextTypes ==
    \/ Start
    \/ Draw(20, 3)
    \/ Key_Tab
    \/ Key_BackTab
    \/ Key_w
    \/ Key_b
    \/ Key_l
    \/ Key_h

SpecTypes == InitTypes /\ [][NextTypes]_vars

\* next applied n times
RECURSIVE next_times(_, _)
next_times(t, n) == IF n = 0 THEN t ELSE next_times(next(t), n - 1)

TypeCount == Len(DataType_all)
AllTypes == { DataType_all[i] : i \in DOMAIN DataType_all }

\* C32: type cycling is a total cyclic order over the nine types: next applied
\* nine times from the current type returns it after passing every other type,
\* prev(next(t)) = next(prev(t)) = t, and so Tab followed by Shift-Tab (and
\* Shift-Tab followed by Tab) restores current_type.
C32_TypeCycle ==
    [][/\ Cardinality(AllTypes) = TypeCount
       /\ next_times(current_type, TypeCount) = current_type
       /\ { next_times(current_type, n) : n \in 0 .. (TypeCount - 1) } = AllTypes
       /\ prev(next(current_type)) = current_type
       /\ next(prev(current_type)) = current_type
       /\ Key_Tab => prev(current_type') = current_type
       /\ Key_BackTab => next(current_type') = current_type]_vars

\* u8 is the current type again after a key that cycles the type: Tab and
\* Shift-Tab, or nine times one of them
C32_Witness ==
    /\ current_type = "U8"
    /\ message = Some(<< "Type:", name("U8") >>)

(***************************************************************************)
(* gg and G                                                                *)
(***************************************************************************)
\* the second g of gg
Key_gg == Key_g /\ pending_g /\ ~toggle_matched

\* the record cursor is inside the window of visible_records rows
CursorInWindow ==
    scroll_offset <= current_record /\ current_record < scroll_offset + visible_records

\* C33 as stated: gg sets current_record and scroll_offset to 0, G sets
\* current_record to record_count - 1 with the scroll following; both do so
\* whatever count was typed and leave the count buffer and the pending
\* prefixes empty.
C33_JumpToEnds ==
    [][/\ Key_gg
          => (/\ current_record' = 0
              /\ scroll_offset' = 0
              /\ count_buffer' = << >>
              /\ PendingSet' = { })
       /\ (Key_G /\ pc' # "panicked")
          => (/\ current_record' = Len(records) - 1
              /\ CursorInWindow'
              /\ count_buffer' = << >>
              /\ PendingSet' = { })]_vars

\* C33, amended: gg sets current_record and scroll_offset to 0; G sets
\* current_record to record_count - 1 with the scroll following when there are
\* records, and to 0 when there are none; both do so whatever count was typed
\* and leave the count buffer and the pending prefixes empty.
C33_JumpToEndsOrZero ==
    [][/\ Key_gg
          => (/\ current_record' = 0
              /\ scroll_offset' = 0
              /\ count_buffer' = << >>
              /\ PendingSet' = { })
       /\ (Key_G /\ pc' # "panicked")
          => (/\ records # << >> => (current_record' = Len(records) - 1 /\ CursorInWindow')
              /\ records = << >> => current_record' = 0
              /\ count_buffer' = << >>
              /\ PendingSet' = { })]_vars

\* G was pressed on the empty record set
C33_Witness ==
    /\ records = << >>
    /\ message = Some(<< "Jumped to last record" >>)
    /\ current_record = 0
    /\ count_buffer = << >>

(***************************************************************************)
(* Varints under the cursor                                                *)
(***************************************************************************)
InitVarint == Init /\ records \in VarintRecordSets /\ fs = NoFiles

NextVarint ==
    \/ Start
    \/ Draw(20, 3)
    \/ Key_Tab
    \/ Key_BackTab
    \/ Key_w
    \/ Key_b

SpecVarint == InitVarint /\ [][NextVarint]_vars

\* the bytes from the cursor to the end of the record
BytesAtCursor ==
    SubSeq(records[1], current_field_byte + 1, Len(records[1]))

\* the most bytes a varint of the accumulator's width has: 10 for 64 bits
VarintMaxBytes == (VarintBits + 6) \div 7

\* the index of the first byte with the high bit clear, if it is among the
\* first VarintMaxBytes bytes
Terminators(data) ==
    { k \in 1 .. Min(Len(data), VarintMaxBytes) :
        data[k] < 128 /\ \A j \in 1 .. (k - 1) : data[j] >= 128 }

\* the base-128 number of the first k bytes, the first byte the lowest group
RECURSIVE Base128(_, _)
Base128(data, k) ==
    IF k = 0 THEN 0 ELSE Base128(data, k - 1) + (data[k] % 128) * (128 ^ (k - 1))

\* C34: a varint is read as little-endian base-128 groups up to a byte with
\* the high bit clear, and the text is the number accumulated (in the
\* accumulator's width); 0xAC 0x02 gives 300; bytes with no terminating byte
\* among the first ten (VarintMaxBytes here), or that end before one, give the
\* empty text.
C34_VarintDecode ==
    (current_type = "VarInt" /\ current_field_byte <= Len(records[1]))
    => LET text == decode_value_varint(records[1], current_field_byte)
           data == BytesAtCursor
       IN  /\ \A k \in Terminators(data) :
                /\ text # << >>
                /\ DecimalValue(text) = Base128(data, k) % (2 ^ VarintBits)
           /\ Terminators(data) = { } => text = << >>
           /\ data = << 172, 2 >> => text = << "3", "0", "0" >>

\* the cursor is on 0xAC 0x02 after a continuation byte, read as 300
C34_Witness ==
    /\ current_type = "VarInt"
    /\ records = << << 128, 172, 2 >> >>
    /\ current_field_byte = 1
    /\ decode_value_varint(records[1], current_field_byte) = << "3", "0", "0" >>

(***************************************************************************)
(* draw_records: the walk over the fields of a row                         *)
(***************************************************************************)
\* DataType::display_width
display_width(t) ==
    CASE t = "U8" -> 4
      [] t = "Hex" -> 3
      [] t = "Binary" -> 9
      [] t \in { "U16Le", "U16Be" } -> 6
      [] t \in { "U32Le", "U32Be" } -> 11
      [] t = "VarInt" -> 11
      [] t = "Ascii" -> 2

line_num_width == Len(format_usize(Len(records)))
gutter_width == IF show_gutter THEN 2 ELSE 0
prefix_width == line_num_width + gutter_width + 1

\* how many fields fit on the width the renderer stored
visible_fields == saturating_sub(terminal_width, prefix_width) \div display_width(current_type)
center_field == visible_fields \div 2
scroll_field == saturating_sub(current_field, center_field)

\* the closure of `find`: byte_pos starts inside the locked field
row_inside(lf, byte_pos) ==
    byte_pos >= lf.byte_offset /\ byte_pos < wrapping_add(lf.byte_offset, lf.byte_length)

\* locked_fields.iter().find(..) when show_locks is on: the index of the first
\* field byte_pos is inside, 0 for None
row_locked_field(byte_pos) ==
    IF show_locks /\ \E i \in DOMAIN locked_fields : row_inside(locked_fields[i], byte_pos)
    THEN CHOOSE i \in DOMAIN locked_fields :
            /\ row_inside(locked_fields[i], byte_pos)
            /\ \A j \in 1 .. (i - 1) : ~row_inside(locked_fields[j], byte_pos)
    ELSE 0

\* overflows_into_lock
row_overflows(byte_pos) ==
    /\ show_locks
    /\ row_locked_field(byte_pos) = 0
    /\ \E i \in DOMAIN locked_fields :
          /\ byte_pos < locked_fields[i].byte_offset
          /\ byte_pos + type_size > locked_fields[i].byte_offset

\* the locked cell taking its next position from the field's offset alone
row_cell_stays(is_current, byte_pos, field_idx) ==
    LET lf == row_locked_field(byte_pos)
    IN  [byte_pos |-> byte_pos,
         field_idx |-> field_idx,
         is_cursor |-> is_current /\ field_idx = current_field,
         locked_field |-> lf,
         overflows |-> row_overflows(byte_pos),
         decoded |-> IF lf # 0
                     THEN Some([offset |-> locked_fields[lf].byte_offset,
                                data_type |-> locked_fields[lf].data_type])
                     ELSE Some([offset |-> byte_pos, data_type |-> current_type]),
         next_pos |-> IF lf # 0 THEN locked_fields[lf].byte_offset
                      ELSE byte_pos + type_size]

\* one turn of the loop: the cell pushed and the position the walk goes on from
row_cell(is_current, byte_pos, field_idx) ==
    LET lf == row_locked_field(byte_pos)
    IN  [byte_pos |-> byte_pos,
         field_idx |-> field_idx,
         is_cursor |-> is_current /\ field_idx = current_field,
         locked_field |-> lf,
         overflows |-> row_overflows(byte_pos),
         decoded |-> IF lf # 0
                     THEN Some([offset |-> locked_fields[lf].byte_offset,
                                data_type |-> locked_fields[lf].data_type])
                     ELSE Some([offset |-> byte_pos, data_type |-> current_type]),
         next_pos |-> IF lf # 0
                      THEN wrapping_add(locked_fields[lf].byte_offset,
                                        locked_fields[lf].byte_length)
                      ELSE byte_pos + type_size]

\* the while loop over the fields of a record: the cells in the order pushed
RECURSIVE row_walk(_, _, _, _, _)
row_walk(record, is_current, byte_pos, field_idx, fields_rendered) ==
    IF byte_pos + type_size <= Len(record) /\ fields_rendered < visible_fields
    THEN LET cell == row_cell(is_current, byte_pos, field_idx)
         IN  << cell >> \o row_walk(record, is_current, cell.next_pos, field_idx + 1,
                                    fields_rendered + 1)
    ELSE << >>

\* the cells of the row of record r (from 0)
row_cells(r) ==
    row_walk(records[r + 1], r = current_record,
             field_offset + (scroll_field * type_size), scroll_field, 0)

\* the cells of the current record's row, when it has one
cursor_row == IF current_record < Len(records) THEN row_cells(current_record) ELSE << >>

\* C35: in the row of the current record the cell highlighted as the cursor
\* starts at the byte L and U act on, field_offset + current_field x width,
\* also when locked fields of another width lie before the cursor in the row.
C35_CursorCellAtCursorByte ==
    pc = "read"
    => \A i \in DOMAIN cursor_row :
          cursor_row[i].is_cursor => cursor_row[i].byte_pos = current_field_byte


\* the cells of every row
AllCells == UNION { { row_cells(r)[i] : i \in DOMAIN row_cells(r) } : r \in 0 .. (Len(records) - 1) }

\* the locked fields whose bytes include the byte position
FieldsAround(byte_pos) ==
    { i \in DOMAIN locked_fields :
        /\ locked_fields[i].byte_offset <= byte_pos
        /\ byte_pos < locked_fields[i].byte_offset + locked_fields[i].byte_length }

\* a field of the current type at byte_pos starts before a locked field and
\* ends after that field's start
Straddles(byte_pos) ==
    \E i \in DOMAIN locked_fields :
        /\ byte_pos < locked_fields[i].byte_offset
        /\ byte_pos + type_size > locked_fields[i].byte_offset

\* C36: with show-locks on, a cell whose byte position is inside a locked
\* field is decoded with that field's type from the field's offset and the walk
\* goes on at the field's end; of several fields around the byte the first in
\* offset order is used; a field of the current type that starts before a
\* locked field and ends after that field's start is flagged overflow and is
\* not decoded.
C36_LockedAndOverflowCells ==
    (pc = "read" /\ show_locks)
    => \A cell \in AllCells :
          /\ FieldsAround(cell.byte_pos) # { }
             => LET lf == locked_fields[cell.locked_field]
                IN  /\ cell.locked_field \in FieldsAround(cell.byte_pos)
                    /\ \A j \in FieldsAround(cell.byte_pos) :
                          lf.byte_offset <= locked_fields[j].byte_offset
                    /\ cell.decoded = Some([offset |-> lf.byte_offset,
                                            data_type |-> lf.data_type])
                    /\ cell.next_pos = lf.byte_offset + lf.byte_length
          /\ (FieldsAround(cell.byte_pos) = { } /\ Straddles(cell.byte_pos))
             => (cell.overflows /\ cell.decoded = None)


(***************************************************************************)
(* The row walk over a preset edited by hand                               *)
(***************************************************************************)
RowWidths == { 9, 20 }

InitRow == Init /\ records = ScenarioRecords /\ fs = MalformedFiles

NextRow ==
    \/ Start
    \/ StartAutoLoad(NameA, TRUE)
    \/ \E width \in RowWidths : Draw(width, 3)
    \/ Key_l
    \/ Key_w
    \/ Key_b
    \/ Key_Tab
    \/ Key_U

SpecRow == InitRow /\ [][NextRow]_vars

CommandLines == { L_e_x, V_clear }

InitCommand == Init /\ records = MoveRecords /\ fs = NoFiles

NextCommand ==
    \/ Start
    \/ Draw(20, 3)
    \/ Key_colon
    \/ Key_j
    \/ Key_L
    \/ Key_open_bracket
    \/ Key_f
    \/ \E c \in KeysDigits : Key_digit(c)
    \/ TypeTowards(CommandLines)
    \/ Cmd_Backspace
    \/ Cmd_other
    \/ Cmd_Esc
    \/ Cmd_Enter("ok")
    \/ Event_other

SpecCommand == InitCommand /\ [][NextCommand]_vars

\* everything but command_buffer, command_mode, message and the place in the loop
outside_command_line ==
    << records, current_record, field_offset, current_field, current_type,
       locked_fields, scroll_offset, visible_records, current_preset, count_buffer,
       frequency_mode, byte_frequencies, pending_g, pending_y, pending_yo,
       pending_open_bracket, pending_close_bracket, wrap_mode, horizontal_scroll,
       terminal_width, show_locks, show_gutter, fs, settings_file >>

\* C38: while the command line is open a key other than Enter changes only
\* command_buffer, command_mode and message (no key reaches the normal-mode
\* handler); Esc leaves the sub-mode with an empty buffer, and ':' always
\* opens it with an empty buffer.
C38_CommandLineFrame ==
    [][/\ (pc = "read" /\ command_mode /\ ~(\E io \in OpenIo : Cmd_Enter(io)))
          => UNCHANGED outside_command_line
       /\ Cmd_Esc => (~command_mode' /\ command_buffer' = << >> /\ message' = None)
       /\ Key_colon => (command_mode' /\ command_buffer' = << >>)]_vars

\* the command line was left by Esc or opened again: characters were typed
\* after a count and a prefix, which are still there
C38_Witness ==
    /\ pc = "draw"
    /\ command_mode
    /\ command_buffer = << "e", " ", "x" >>
    /\ count_buffer = << "2" >>
    /\ pending_open_bracket


(***************************************************************************)
(* What a toggle or force command leaves alone                             *)
(***************************************************************************)
InitToggle == Init /\ records = ScenarioRecords /\ fs = NoFiles

NextToggle ==
    \/ Start
    \/ Draw(20, 3)
    \/ Key_y
    \/ Key_o
    \/ Key_open_bracket
    \/ Key_close_bracket
    \/ Key_f
    \/ Key_w
    \/ Key_l
    \/ Key_g
    \/ Key_j
    \/ Key_L

SpecToggle == InitToggle /\ [][NextToggle]_vars

\* yo, '[' or ']' has been typed and not yet used
TogglePrefix == pending_yo \/ pending_open_bracket \/ pending_close_bracket

\* the cursor, the type and the data
cursor_and_data ==
    << current_record, field_offset, current_field, current_type, records, locked_fields >>

\* C39: a toggle or force command on one of the four modes (yo, '[' or ']'
\* followed by f, w, l or g) leaves the other three mode flags, the record
\* cursor, the field offset and index, the current type, the records and the
\* locked fields unchanged.
C39_ToggleFrame ==
    [][/\ (TogglePrefix /\ Key_f)
          => UNCHANGED << wrap_mode, show_locks, show_gutter, cursor_and_data >>
       /\ (TogglePrefix /\ Key_w)
          => UNCHANGED << frequency_mode, show_locks, show_gutter, cursor_and_data >>
       /\ (TogglePrefix /\ Key_l)
          => UNCHANGED << frequency_mode, wrap_mode, show_gutter, cursor_and_data >>
       /\ (TogglePrefix /\ Key_g)
          => UNCHANGED << frequency_mode, wrap_mode, show_locks, cursor_and_data >>]_vars

\* the locks were switched off with the cursor away from the start and a field
\* locked
C39_Witness ==
    /\ message = Some(<< "Locks OFF" >>)
    /\ ~show_locks
    /\ current_record = 1
    /\ current_field = 1
    /\ locked_fields # << >>


(***************************************************************************)
(* The length of a field that L stores                                     *)
(***************************************************************************)
\* C40: every field stored by L with count c has byte_length exactly
\* width(current_type) x c, which is greater than 0: neither the product
\* width x count nor the sum offset + length wraps around the machine word
\* when a field passes the overlap and record-length checks.
C40_LockedLengthExact ==
    [][(Key_L /\ Len(locked_fields') > Len(locked_fields))
          => /\ candidate_len <= UsizeMax
             /\ candidate_end <= UsizeMax
             /\ \E i \in DOMAIN locked_fields' :
                   /\ locked_fields'[i].byte_offset = current_field_byte
                   /\ locked_fields'[i].byte_length = candidate_len
                   /\ locked_fields'[i].byte_length > 0]_vars

====
